---- MODULE Spec2Model ----
(***************************************************************************)
(* The duet control-plane client: the NDJSON wire client (ControlClient,   *)
(* protocol/client.py) driven either freely through its public methods or  *)
(* by the command runners of the CLI (cli.py, _run_call and the others     *)
(* under _run), with the runtime on the other end of the transport as the  *)
(* environment.                                                            *)
(*                                                                         *)
(* One client is used by one flow of control (asyncio, no task shares a    *)
(* client in cli.py): pc is that flow's position inside the method it is   *)
(* executing.  Every await of _send (drain, readline) is one suspension    *)
(* state, "awaiting"; the wait for the subprocess in close() is            *)
(* "close_wait".                                                           *)
(***************************************************************************)
EXTENDS Integers, Sequences, FiniteSets, TLC

\* ------------------------------------------------------------- bounds
\* Requests one client writes in a run (handshakes included).
MaxRequests == 3
\* Transports (subprocesses or sockets) one client opens in a run.
MaxConns == 2

Conns == 1..MaxConns

\* A handle that is None (client.py 35-37); a live handle is the index of
\* the transport it belongs to.
NoHandle == 0

\* The commands call() is driven with (the handshake is sent by connect()).
Commands == {"status"}

\* ------------------------------------------------- JSON and Python values
\* A JSON value on the wire: its kind, its literal text for a scalar, and
\* the members of an array or object, one level deep.
JNull == [kind |-> "null", atom |-> "null", items |-> <<>>]
JFalse == [kind |-> "false", atom |-> "false", items |-> <<>>]
JZero == [kind |-> "number_int", atom |-> "0", items |-> <<>>]
JText == [kind |-> "string", atom |-> "caf\\u00e9", items |-> <<>>]
JBoom == [kind |-> "string", atom |-> "boom", items |-> <<>>]
JCode == [kind |-> "string", atom |-> "E42", items |-> <<>>]
JArray ==
    [kind |-> "array", atom |-> "",
     items |-> << [key |-> "", kind |-> "number_int", atom |-> "1"] >>]
JObject ==
    [kind |-> "object", atom |-> "",
     items |-> << [key |-> "result", kind |-> "number_int", atom |-> "7"] >>]

\* The results a runtime replies with: every JSON kind, the falsy ones
\* included, and an object that itself has a "result" member.
JsonValues == {JNull, JFalse, JZero, JText, JArray, JObject}

\* json.loads: the Python type a JSON kind decodes to.
PyTypeOf(kind) ==
    CASE kind = "null" -> "NoneType"
      [] kind = "true" -> "bool"
      [] kind = "false" -> "bool"
      [] kind = "number_int" -> "int"
      [] kind = "number_float" -> "float"
      [] kind = "string" -> "str"
      [] kind = "array" -> "list"
      [] kind = "object" -> "dict"

\* json.loads: the Python literal a JSON scalar decodes to.
PyAtomOf(kind, atom) ==
    CASE kind = "null" -> "None"
      [] kind = "true" -> "True"
      [] kind = "false" -> "False"
      [] OTHER -> atom

loads(j) ==
    [type |-> PyTypeOf(j.kind),
     atom |-> PyAtomOf(j.kind, j.atom),
     items |-> [i \in DOMAIN j.items |->
                  [key |-> j.items[i].key,
                   type |-> PyTypeOf(j.items[i].kind),
                   atom |-> PyAtomOf(j.items[i].kind, j.items[i].atom)]]]

\* json.dumps: the JSON kind a Python value encodes to.
JsonKindOf(type, atom) ==
    CASE type = "NoneType" -> "null"
      [] type = "bool" -> IF atom = "True" THEN "true" ELSE "false"
      [] type = "int" -> "number_int"
      [] type = "float" -> "number_float"
      [] type = "str" -> "string"
      [] type = "list" -> "array"
      [] type = "dict" -> "object"

JsonAtomOf(type, atom) ==
    CASE type = "NoneType" -> "null"
      [] type = "bool" -> IF atom = "True" THEN "true" ELSE "false"
      [] OTHER -> atom

dumps(p) ==
    [kind |-> JsonKindOf(p.type, p.atom),
     atom |-> JsonAtomOf(p.type, p.atom),
     items |-> [i \in DOMAIN p.items |->
                  [key |-> p.items[i].key,
                   kind |-> JsonKindOf(p.items[i].type, p.items[i].atom),
                   atom |-> JsonAtomOf(p.items[i].type, p.items[i].atom)]]]

PyNone == [type |-> "NoneType", atom |-> "None", items |-> <<>>]
PyStr(s) == [type |-> "str", atom |-> s, items |-> <<>>]

\* ------------------------------------------------------ response lines
\* The `error` member of a response: an object with any subset of the
\* members message, code and details, or a value that is no object.
ErrorKeys == {"message", "code", "details"}

ErrorValues ==
    { [isobj |-> TRUE, has |-> h, message |-> JBoom, code |-> c, details |-> d] :
        h \in SUBSET ErrorKeys, c \in {JNull, JCode}, d \in {JNull, JObject} }
    \cup { [isobj |-> FALSE, has |-> {}, message |-> JBoom, code |-> JNull,
            details |-> JNull] }

NoError ==
    [isobj |-> FALSE, has |-> {}, message |-> JNull, code |-> JNull, details |-> JNull]

\* Members whose key is absent are never read; they are normalised so that
\* one envelope has one representation.
NormalError(e) ==
    [e EXCEPT !.code = IF "code" \in e.has THEN e.code ELSE JNull,
              !.details = IF "details" \in e.has THEN e.details ELSE JNull]

\* What readline() hands to _send: end of stream, a line that is not JSON,
\* a JSON array, or a JSON object with any of the members result and error.
EofLine ==
    [shape |-> "eof", id |-> 0, has |-> {}, result |-> JNull, error |-> NoError]
GarbageLine ==
    [shape |-> "garbage", id |-> 0, has |-> {}, result |-> JNull, error |-> NoError]
ArrayLine ==
    [shape |-> "array", id |-> 0, has |-> {}, result |-> JNull, error |-> NoError]
NoLine ==
    [shape |-> "none", id |-> 0, has |-> {}, result |-> JNull, error |-> NoError]

\* The ids a runtime may put in the line it sends while request `id` is
\* outstanding: that id, or another one (that of an earlier request, or of
\* one not sent yet).
ResponseIds(id) == {id, IF id = 1 THEN 2 ELSE id - 1}

SuccessLines(id) ==
    { [shape |-> "object", id |-> i, has |-> {"result"}, result |-> r, error |-> NoError] :
        i \in ResponseIds(id), r \in JsonValues }
    \cup { [shape |-> "object", id |-> i, has |-> {}, result |-> JNull, error |-> NoError] :
        i \in ResponseIds(id) }

ErrorLines(id) ==
    { [shape |-> "object", id |-> i, has |-> {"error"}, result |-> JNull,
       error |-> NormalError(e)] :
        i \in ResponseIds(id), e \in ErrorValues }

Lines(id) == SuccessLines(id) \cup ErrorLines(id) \cup {EofLine, GarbageLine, ArrayLine}


\* ---------------------------------------------------------------- state
VARIABLES
    runtime_cmd,   \* TRUE: the constructor was given a command to launch
    runtime_addr,  \* TRUE: it was given an address (socket); FALSE: a pipe client
    process,       \* self._process: the transport of the subprocess, or NoHandle
    reader,        \* self._reader: the transport it reads from, or NoHandle
    writer,        \* self._writer: the transport it writes to, or NoHandle
    counter,       \* the value next(self._counter) returns next
    pc,            \* "idle" | "awaiting" | "close_wait"
    wire,          \* every request envelope handed to a writer, in order
    transport,     \* per transport: "unopened" | "open" | "closing" | "closed"
    eof,           \* the transports whose read side has reached end of stream
    signals,       \* how many times terminate() was called on a subprocess
    teardown,      \* per transport: what close() has done to it, in order
    outcome,       \* how the last finished method ended
    prevOp,        \* the method that finished before it
    runner,        \* "off": methods called freely; else the command runner's position
    exc            \* the exception on its way out of the runner to _run, or "none"

\* The daemon supervisor's world (cli.py 120-250, 912-990, 1571-1592).
VARIABLES
    record,        \* the content of <root>/daemon.json
    procs,         \* the runtime processes there have been, by pid
    inv,           \* per CLI invocation: the command run and its position
    active         \* the CLI invocations that run

cvars ==
    <<runtime_cmd, runtime_addr, process, reader, writer, counter, pc, wire, transport,
      eof, signals, teardown, outcome, prevOp, runner, exc>>

dvars == <<record, procs, inv, active>>

\* A helper function of cli.py applied on its own: what it was given and
\* what it returned.
VARIABLES
    args,          \* the arguments and the environment of the call, or NoCall
    ret            \* what the call returned

\* The runtime root directory (cli.py 136-153, 1027-1029).
VARIABLES
    root           \* TRUE: the directory exists

\* A polling loop of a command runner on its own (cli.py 1182-1247,
\* 1954-2011).
VARIABLES
    loop           \* its local variables, what it has sent and received; or NoCall

hvars == <<args, ret, root, loop>>

vars == <<cvars, dvars, hvars>>

\* No helper is applied and no loop runs, and the root directory is there.
NoCall == [fn |-> "none"]
NoHelper == args = NoCall /\ ret = NoCall /\ root = TRUE /\ loop = NoCall

\* A method's end: the method, how it ended ("return" or the exception),
\* the id of the request it wrote (0: it wrote none), the line it consumed,
\* and the value returned or the attributes of the ProtocolError raised.
Ended(op, kind, reqid, line) ==
    [op |-> op, kind |-> kind, reqid |-> reqid, line |-> line,
     value |-> PyNone, message |-> PyNone, code |-> PyNone, details |-> PyNone]

\* A faulty decoding: a result that is an object with a "result" member is
\* unwrapped (what invoke_capability does on purpose) instead of returned.
DecodeUnwrapped(line) ==
    IF line.shape = "eof" THEN [kind |-> "ConnectionClosed", value |-> PyNone,
                                message |-> PyNone, code |-> PyNone, details |-> PyNone]
    ELSE IF line.shape = "garbage" THEN [kind |-> "JSONDecodeError", value |-> PyNone,
                                message |-> PyNone, code |-> PyNone, details |-> PyNone]
    ELSE IF line.shape = "array" THEN [kind |-> "AttributeError", value |-> PyNone,
                                message |-> PyNone, code |-> PyNone, details |-> PyNone]
    ELSE IF "error" \in line.has
    THEN IF ~line.error.isobj
         THEN [kind |-> "AttributeError", value |-> PyNone,
               message |-> PyNone, code |-> PyNone, details |-> PyNone]
         ELSE [kind |-> "ProtocolError", value |-> PyNone,
               message |-> IF "message" \in line.error.has
                           THEN loads(line.error.message) ELSE PyStr("unknown error"),
               code |-> IF "code" \in line.error.has
                        THEN loads(line.error.code) ELSE PyNone,
               details |-> IF "details" \in line.error.has
                           THEN loads(line.error.details) ELSE PyNone]
    ELSE [kind |-> "return",
          value |-> IF "result" \in line.has
                    THEN (IF line.result.kind = "object" /\ Len(line.result.items) > 0
                             /\ line.result.items[1].key = "result"
                          THEN [type |-> PyTypeOf(line.result.items[1].kind),
                                atom |-> PyAtomOf(line.result.items[1].kind,
                                                  line.result.items[1].atom),
                                items |-> <<>>]
                          ELSE loads(line.result))
                    ELSE PyNone,
          message |-> PyNone, code |-> PyNone, details |-> PyNone]

\* A faulty decoding: the details of an error envelope are dropped.
DecodeLossy(line) ==
    IF line.shape = "object" /\ "error" \in line.has /\ line.error.isobj
    THEN [kind |-> "ProtocolError", value |-> PyNone,
          message |-> IF "message" \in line.error.has
                      THEN loads(line.error.message) ELSE PyStr("unknown error"),
          code |-> IF "code" \in line.error.has
                   THEN loads(line.error.code) ELSE PyNone,
          details |-> PyNone]
    ELSE DecodeUnwrapped(line)

\* A faulty decoding: end of stream is taken for an empty success.
DecodeEofAsNull(line) ==
    IF line.shape = "eof"
    THEN [kind |-> "return", value |-> PyNone,
          message |-> PyNone, code |-> PyNone, details |-> PyNone]
    ELSE DecodeUnwrapped(line)

\* _send after readline() returned `line` (client.py 137-148): how it ends.
Decode(line) ==
    IF line.shape = "eof"
    THEN [kind |-> "ConnectionClosed", value |-> PyNone,
          message |-> PyNone, code |-> PyNone, details |-> PyNone]
    ELSE IF line.shape = "garbage"
    THEN [kind |-> "JSONDecodeError", value |-> PyNone,
          message |-> PyNone, code |-> PyNone, details |-> PyNone]
    ELSE IF line.shape = "array"
    THEN [kind |-> "AttributeError", value |-> PyNone,
          message |-> PyNone, code |-> PyNone, details |-> PyNone]
    ELSE IF "error" \in line.has
    THEN IF ~line.error.isobj
         THEN [kind |-> "AttributeError", value |-> PyNone,
               message |-> PyNone, code |-> PyNone, details |-> PyNone]
         ELSE [kind |-> "ProtocolError", value |-> PyNone,
               message |-> IF "message" \in line.error.has
                           THEN loads(line.error.message) ELSE PyStr("unknown error"),
               code |-> IF "code" \in line.error.has
                        THEN loads(line.error.code) ELSE PyNone,
               details |-> IF "details" \in line.error.has
                           THEN loads(line.error.details) ELSE PyNone]
    ELSE [kind |-> "return",
          value |-> IF "result" \in line.has THEN loads(line.result) ELSE PyNone,
          message |-> PyNone, code |-> PyNone, details |-> PyNone]

\* dict.get(key) on a decoded value (client.py 109): the member under the
\* key, or None.
Get(p, key) ==
    IF \E i \in DOMAIN p.items : p.items[i].key = key
    THEN LET i == CHOOSE i \in DOMAIN p.items : p.items[i].key = key
         IN  [type |-> p.items[i].type, atom |-> p.items[i].atom, items |-> <<>>]
    ELSE PyNone

\* A faulty wrapper layer: _send's ending is handed on as it is by every
\* method.
WrapperPlain(method, d) == d

\* What a public method makes of _send's ending `d` (client.py 81-110):
\* status() and send_message() assert that the result is a dict,
\* invoke_capability() returns the "result" member of a dict result, and
\* call() and the handshake hand it on.  Assertions are taken as enabled
\* (the interpreter's default).
Wrapper(method, d) ==
    IF d.kind # "return" THEN d
    ELSE IF method \in {"status", "send_message"}
    THEN (IF d.value.type = "dict" THEN d ELSE [d EXCEPT !.kind = "AssertionError",
                                                         !.value = PyNone])
    ELSE IF method = "invoke_capability"
    THEN (IF d.value.type = "dict" THEN [d EXCEPT !.value = Get(d.value, "result")] ELSE d)
    ELSE d

\* The command runners of cli.py, each named by its position while it
\* awaits _connect_client: _run_call (1128), _run_send_message (1110),
\* _run_invoke_capability (1119), _run_dataspace_tail without and with
\* --follow (1954; _run_transcript_tail, 1983, has the same control flow),
\* _run_agent_chat without and with a request to resume (1336) and
\* _workflow_start_command in interactive mode (1137).  No runner of cli.py
\* calls status(): it is driven the way _run_send_message drives
\* send_message().
Runners ==
    {"connect", "connect_status", "connect_send", "connect_invoke", "connect_tail",
     "connect_follow", "connect_chat", "connect_resume", "connect_workflow"}

\* The position of a runner at its first request.
FirstCall(r) ==
    CASE r = "connect" -> "call"
      [] r = "connect_status" -> "status"
      [] r = "connect_send" -> "send_message"
      [] r = "connect_invoke" -> "invoke_capability"
      [] r = "connect_tail" -> "tail_once"
      [] r = "connect_follow" -> "tail"
      [] r = "connect_chat" -> "agent_invoke"
      [] r = "connect_resume" -> "transcript_show"
      [] r = "connect_workflow" -> "workflow_start"

\* The positions at which a runner awaits client.call(), and the command it
\* calls there (_run_call is given its command).
CallPositions ==
    {"call", "tail_once", "tail", "transcript_show", "agent_invoke", "agent_responses",
     "follow_up", "workflow_start", "workflow_follow", "workflow_input"}

CommandAt(r) ==
    CASE r \in {"off", "call"} -> Commands
      [] r \in {"tail_once", "tail"} -> {"dataspace_events"}
      [] r \in {"agent_responses", "follow_up"} -> {"agent_responses"}
      [] OTHER -> {r}

\* The exception handlers inside the runners: _augment_prompt_with_history
\* catches the ProtocolError of its transcript_show call and goes on with
\* the bare prompt (cli.py 1503-1512).
Caught(r, kind) == r = "transcript_show" /\ kind = "ProtocolError"

\* A faulty runner that asks again when a request failed.
RunnerStepRetry(r, o) ==
    IF r = "off" THEN {"off"}
    ELSE IF o.op = "connect"
    THEN (IF o.kind = "return" THEN {FirstCall(r)} ELSE {"done"})
    ELSE IF o.op = "close" THEN {"done"}
    ELSE IF o.kind # "return" THEN {r, "finally"}
    ELSE {"finally"}

\* Where a runner goes when the method it awaits has ended as `o`.
\* _connect_client is awaited outside the try block, so an exception from
\* connect() leaves the runner without running finally; every request is
\* inside it (cli.py 1128-1134 and the runners named above).  A loop goes
\* round or is left on what the result holds: a tail follows while the
\* result is a dict (1966-1977), the chat goes on to wait when the result
\* names a request and --wait-for-response was given, waits until a dict
\* with responses is there and asks once more when --wait was given
\* (1355-1396), the interactive workflow follows until the instance is
\* finished and sends the user's input between two polls (1189-1234).
RunnerStep(r, o) ==
    IF r = "off" THEN {"off"}
    ELSE IF o.op = "connect"
    THEN (IF o.kind = "return" THEN {FirstCall(r)} ELSE {"done"})
    ELSE IF o.op = "close" THEN {"done"}
    ELSE IF o.kind # "return"
    THEN (IF Caught(r, o.kind) THEN {"agent_invoke"} ELSE {"finally"})
    ELSE LET dict == o.value.type = "dict"
         IN  CASE r = "transcript_show" -> {"agent_invoke"}
               [] r = "agent_invoke" ->
                    IF dict THEN {"agent_responses", "finally"} ELSE {"finally"}
               [] r = "agent_responses" ->
                    IF dict THEN {"agent_responses", "follow_up", "finally"}
                    ELSE {"agent_responses"}
               [] r = "tail" -> IF dict THEN {"tail"} ELSE {"finally"}
               [] r = "workflow_start" ->
                    IF dict THEN {"workflow_follow", "finally"} ELSE {"finally"}
               [] r = "workflow_follow" ->
                    IF dict THEN {"workflow_follow", "workflow_input", "finally"}
                    ELSE {"finally"}
               [] r = "workflow_input" -> {"workflow_follow"}
               [] OTHER -> {"finally"}

\* The exception on its way out of the runner once a method has ended as
\* `o`: one that is raised and not caught replaces what was there.  The
\* interactive workflow loop catches KeyboardInterrupt and returns (cli.py
\* 1236-1238), so an interrupt there is caught when it is raised as such
\* inside the coroutine.
Raised(r, o) ==
    IF r = "off" \/ o.kind = "return" \/ Caught(r, o.kind) THEN {exc}
    ELSE IF r \in {"workflow_follow", "workflow_input"} /\ o.kind = "Interrupted"
    THEN {exc, o.kind}
    ELSE {o.kind}

\* A faulty _run whose catch-all handler comes first.
_runCatchAll(kind) ==
    IF kind = "none" THEN {[title |-> "", code |-> 0]}
    ELSE {[title |-> "Unexpected Error", code |-> 1]}

\* _run (cli.py 273-289): what is printed and the exit code, by the
\* exception that left the coroutine.  An interrupt of a pending request is
\* the user's Ctrl-C or a failure of the transport.
_run(kind) ==
    CASE kind = "none" -> {[title |-> "", code |-> 0]}
      [] kind = "ProtocolError" -> {[title |-> "Protocol Error", code |-> 1]}
      [] kind = "LaunchError" -> {[title |-> "Failed to Launch", code |-> 1]}
      [] kind = "Interrupted" -> {[title |-> "Interrupted by user", code |-> 130],
                                  [title |-> "Unexpected Error", code |-> 1]}
      [] OTHER -> {[title |-> "Unexpected Error", code |-> 1]}

\* The running method ends with `o`; control returns to its caller.
Finish(o) ==
    /\ outcome' = o
    /\ prevOp' = outcome.op
    /\ runner' \in RunnerStep(runner, o)
    /\ exc' \in Raised(runner, o)
    /\ pc' = "idle"

\* ------------------------------------------------- the daemon supervisor
\* How many processes the CLI spawns in one behaviour, and how many ports
\* there are to listen on.
MaxSpawns == 2
MaxPorts == 2

Ports == 1 .. MaxPorts
\* The pids there can be: the earlier daemon's and the spawned ones.
Pids == 1 .. (MaxSpawns + 1)
NoPort == 0
NoPid == 0

\* The CLI invocations there can be on one root.
Invocations == {1, 2}

DEFAULT_DAEMON_HOST == "127.0.0.1"

\* _await_daemon's retries (cli.py 245) and the death polls of
\* _stop_daemon_if_running (cli.py 209).
retries == 50
DeathPolls == 50

\* DaemonState (cli.py 126-131) without its root, and None.
DaemonState(pid, host, port) == [pid |-> pid, host |-> host, port |-> port]
NoState == DaemonState(NoPid, "", NoPort)

\* How a pid or port is written in daemon.json: a JSON integer, a number
\* with a fraction, a string of digits, another string, null, or not at all.
Forms == {"int", "float", "digits", "text", "null", "missing"}

\* int(data["pid"]), int(data["port"]) (cli.py 167, 169): an integer is
\* taken, a float is truncated and a string of digits is read; the rest
\* raises.
int(form) ==
    CASE form \in {"int", "float", "digits"} -> "int"
      [] form = "text" -> "ValueError"
      [] form = "missing" -> "KeyError"
      [] OTHER -> "TypeError"

\* What <root>/daemon.json holds: nothing (no file), text that is not a JSON
\* object, or an object whose pid and port are written in some form; pid and
\* port are the integers int() makes of them when it makes any.
AbsentFile ==
    [kind |-> "absent", form |-> "", pid |-> NoPid, host |-> "", port |-> NoPort]
CorruptFile ==
    [kind |-> "corrupt", form |-> "", pid |-> NoPid, host |-> "", port |-> NoPort]
Written(state, form) ==
    [kind |-> "record", form |-> form, pid |-> state.pid, host |-> state.host,
     port |-> state.port]

\* The payload _save_daemon_state writes (cli.py 183-186).
Payload(state) == Written(state, "int")

\* A runtime process: a daemon told to listen on a port, or the private
\* subprocess of a pipe client. A process that has exited has no port.
Process(kind, port, alive, bound) ==
    [kind |-> kind, port |-> port, alive |-> alive, bound |-> bound]

\* _is_process_alive (cli.py 222-228): signal 0 reaches the pid.
_is_process_alive(pid) == pid \in DOMAIN procs /\ procs[pid].alive

\* _ping_daemon (cli.py 231-236): a connection to host:port is accepted.
_ping_daemon(host, port) ==
    /\ host = DEFAULT_DAEMON_HOST
    /\ \E p \in DOMAIN procs : procs[p].alive /\ procs[p].bound /\ procs[p].port = port

\* A (host, port) pair, and the CLI's --daemon-host/--daemon-port left out.
Addr(host, port) == [host |-> host, port |-> port]
NoAddr == Addr("", NoPort)

\* A CLI invocation that runs no command.
IdleInvocation ==
    [op |-> "none", pc |-> "idle", remote |-> NoAddr, addr |-> NoAddr, port |-> NoPort,
     loaded |-> NoState, seen |-> NoState, child |-> NoPid, tries |-> 0,
     transport |-> "none", result |-> "none", did |-> {}, force |-> FALSE]

\* The supervisor's variables while only the client is looked at.
NoSupervisor ==
    /\ record = AbsentFile
    /\ procs = <<>>
    /\ inv = [i \in Invocations |-> IdleInvocation]
    /\ active = {}

\* ControlClient.__init__ (client.py 26-38) given a command or not and an
\* address or not: how it ends.
__init__(cmd, addr) ==
    IF ~cmd /\ ~addr THEN "ValueError" ELSE "return"

\* The flow of control after the constructor: a client that was rejected
\* does not exist, and no method is called on it.
Constructed(how) == IF how = "return" THEN "idle" ELSE "none"

Init ==
    /\ NoHelper
    /\ runtime_cmd \in BOOLEAN
    /\ runtime_addr \in BOOLEAN
    /\ process = NoHandle
    /\ reader = NoHandle
    /\ writer = NoHandle
    /\ counter = 1
    /\ pc = Constructed(__init__(runtime_cmd, runtime_addr))
    /\ wire = <<>>
    /\ transport = [c \in Conns |-> "unopened"]
    /\ eof = {}
    /\ signals = 0
    /\ teardown = [c \in Conns |-> <<>>]
    /\ outcome = Ended("init", __init__(runtime_cmd, runtime_addr), 0, NoLine)
    /\ prevOp = "init"
    /\ runner \in {"off", "connect"}
    /\ exc = "none"
    /\ NoSupervisor


\* ------------------------------------------------------------- actions
\* How a request stands once _send has ended with exception/return `kind`.
RequestState(kind) ==
    CASE kind = "return" -> "result"
      [] kind = "ProtocolError" -> "error"
      [] kind = "ConnectionClosed" -> "closed"
      [] OTHER -> "failed"

\* The request _send is waiting on: the last one written.
Outstanding == wire[Len(wire)]

\* The public method that sent a request: connect() sends the handshake.
MethodOf(req) == req.method

\* A faulty _send that returns once the request is written, without waiting
\* for its response line.
SendWritePipelined(conn, method, command) ==
    /\ counter <= MaxRequests
    /\ wire' = Append(wire, [conn |-> conn, id |-> counter, method |-> method,
                             command |-> command,
                             state |-> "pending", reads |-> 0])
    /\ counter' = counter + 1
    /\ pc' = "idle"

\* A faulty _send whose counter advances on handshakes only.
SendWriteSameId(conn, method, command) ==
    /\ counter <= MaxRequests
    /\ Len(wire) < MaxRequests
    /\ wire' = Append(wire, [conn |-> conn, id |-> counter, method |-> method,
                             command |-> command,
                             state |-> "pending", reads |-> 0])
    /\ counter' = IF command = "handshake" THEN counter + 1 ELSE counter
    /\ pc' = "awaiting"

\* _send from taking the id to the first await (client.py 125-134): the
\* envelope is built under the next id and handed to the writer, and the
\* caller is suspended until the response line is there.
SendWrite(conn, method, command) ==
    /\ counter <= MaxRequests
    /\ wire' = Append(wire, [conn |-> conn, id |-> counter, method |-> method,
                             command |-> command,
                             state |-> "pending", reads |-> 0])
    /\ counter' = counter + 1
    /\ pc' = "awaiting"

\* How connect() ends when no transport is opened (client.py 44-54): the
\* connection is refused, the launch fails, or the assertion on the
\* command fails.
Refused ==
    IF runtime_addr THEN "ConnectError"
    ELSE IF runtime_cmd THEN "LaunchError" ELSE "AssertionError"

\* The transport connect() opens next.
Unopened(c) == transport[c] = "unopened" /\ \A d \in Conns : d < c => transport[d] # "unopened"

\* A faulty connect() without the early return on a client that has a
\* reader: it opens a transport and sends a handshake every time.
ConnectAlways ==
    /\ UNCHANGED <<dvars, hvars>>
    /\ pc = "idle"
    /\ runner \in {"off"} \cup Runners
    /\ \/ /\ Finish(Ended("connect", Refused, 0, NoLine))
          /\ UNCHANGED <<runtime_cmd, runtime_addr, process, reader, writer, counter, wire,
                         transport, eof, signals, teardown>>
       \/ /\ (runtime_addr \/ runtime_cmd)
          /\ \E c \in Conns :
               /\ Unopened(c)
               /\ transport' = [transport EXCEPT ![c] = "open"]
               /\ reader' = c
               /\ writer' = c
               /\ process' = IF runtime_addr THEN process ELSE c
               /\ SendWrite(c, "connect", "handshake")
          /\ UNCHANGED <<runtime_cmd, runtime_addr, eof, signals, teardown, outcome, prevOp, runner, exc>>

\* A faulty connect() that looks at the command first: a client built with
\* both launches a subprocess, which close() then takes for a socket.
ConnectCommandFirst ==
    /\ UNCHANGED <<dvars, hvars>>
    /\ pc = "idle"
    /\ runner \in {"off"} \cup Runners
    /\ \/ /\ reader # NoHandle
          /\ Finish(Ended("connect", "return", 0, NoLine))
          /\ UNCHANGED <<runtime_cmd, runtime_addr, process, reader, writer, counter, wire,
                         transport, eof, signals, teardown>>
       \/ /\ reader = NoHandle
          /\ Finish(Ended("connect", Refused, 0, NoLine))
          /\ UNCHANGED <<runtime_cmd, runtime_addr, process, reader, writer, counter, wire,
                         transport, eof, signals, teardown>>
       \/ /\ reader = NoHandle
          /\ (runtime_addr \/ runtime_cmd)
          /\ \E c \in Conns :
               /\ Unopened(c)
               /\ transport' = [transport EXCEPT ![c] = "open"]
               /\ reader' = c
               /\ writer' = c
               /\ process' = IF runtime_cmd THEN c ELSE process
               /\ SendWrite(c, "connect", "handshake")
          /\ UNCHANGED <<runtime_cmd, runtime_addr, eof, signals, teardown, outcome, prevOp, runner, exc>>

\* connect() (client.py 40-58) up to the first await of the handshake's
\* _send: a no-op on a client that has a reader; else the transport is
\* opened, which may fail, the handles are stored and the handshake written.
Connect ==
    /\ UNCHANGED <<dvars, hvars>>
    /\ pc = "idle"
    /\ runner \in {"off"} \cup Runners
    /\ \/ /\ reader # NoHandle
          /\ Finish(Ended("connect", "return", 0, NoLine))
          /\ UNCHANGED <<runtime_cmd, runtime_addr, process, reader, writer, counter, wire,
                         transport, eof, signals, teardown>>
       \/ /\ reader = NoHandle
          /\ Finish(Ended("connect", Refused, 0, NoLine))
          /\ UNCHANGED <<runtime_cmd, runtime_addr, process, reader, writer, counter, wire,
                         transport, eof, signals, teardown>>
       \/ /\ reader = NoHandle
          /\ (runtime_addr \/ runtime_cmd)
          /\ \E c \in Conns :
               /\ Unopened(c)
               /\ transport' = [transport EXCEPT ![c] = "open"]
               /\ reader' = c
               /\ writer' = c
               /\ process' = IF runtime_addr THEN process ELSE c
               /\ SendWrite(c, "connect", "handshake")
          /\ UNCHANGED <<runtime_cmd, runtime_addr, eof, signals, teardown, outcome, prevOp, runner, exc>>

\* call(command, params) (client.py 100-101) and _send up to its first
\* await (121-134): refused on a client without reader or writer.
Call ==
    /\ UNCHANGED <<dvars, hvars>>
    /\ pc = "idle"
    /\ runner \in {"off"} \cup CallPositions
    /\ \E command \in CommandAt(runner) :
         \/ /\ (writer = NoHandle \/ reader = NoHandle)
            /\ Finish(Ended("call", "NotConnected", 0, NoLine))
            /\ UNCHANGED <<runtime_cmd, runtime_addr, process, reader, writer, counter, wire,
                           transport, eof, signals, teardown>>
         \/ /\ writer # NoHandle
            /\ reader # NoHandle
            /\ SendWrite(writer, "call", command)
            /\ UNCHANGED <<runtime_cmd, runtime_addr, process, reader, writer, transport, eof,
                           signals, teardown, outcome, prevOp, runner, exc>>

\* _send from readline() on (client.py 136-148): the runtime's next line, or
\* end of stream, is read and decoded, and the method ends.  A stream that
\* has ended stays ended.
ReceiveLine ==
    /\ UNCHANGED <<dvars, hvars>>
    /\ pc = "awaiting"
    /\ \E line \in Lines(Outstanding.id) :
         /\ (reader \in eof => line = EofLine)
         /\ LET d == Decode(line)
                req == Outstanding
                w == Wrapper(MethodOf(req), d)
            IN  /\ Finish([Ended(MethodOf(req), w.kind, req.id, line) EXCEPT
                             !.value = w.value, !.message = w.message,
                             !.code = w.code, !.details = w.details])
                /\ wire' = [wire EXCEPT ![Len(wire)].state = RequestState(d.kind),
                                        ![Len(wire)].reads =
                                            IF line = EofLine THEN @ ELSE @ + 1]
         /\ eof' = IF line = EofLine THEN eof \cup {reader} ELSE eof
    /\ UNCHANGED <<runtime_cmd, runtime_addr, process, reader, writer, counter, transport, signals, teardown>>

\* An interrupt (cancellation, Ctrl-C) or an I/O failure raised at the
\* suspension point of _send (client.py 134, 136): the method ends with the
\* request written and no line consumed.  Opening the transport is one
\* step that succeeds or fails as a whole, and the waits inside close() are
\* not interrupted.
Interrupt ==
    /\ UNCHANGED <<dvars, hvars>>
    /\ pc = "awaiting"
    /\ Finish(Ended(MethodOf(Outstanding), "Interrupted", Outstanding.id, NoLine))
    /\ wire' = [wire EXCEPT ![Len(wire)].state = "failed"]
    /\ UNCHANGED <<runtime_cmd, runtime_addr, process, reader, writer, counter, transport, eof, signals, teardown>>

\* A faulty close() without the early return on a client that has no
\* subprocess: it fails on the missing handle.
CloseUnguarded ==
    /\ UNCHANGED <<dvars, hvars>>
    /\ pc = "idle"
    /\ runner \in {"off", "finally"}
    /\ \/ /\ runtime_addr
          /\ transport' = IF writer # NoHandle
                          THEN [transport EXCEPT ![writer] = "closed"]
                          ELSE transport
          /\ teardown' = IF writer # NoHandle
                         THEN [teardown EXCEPT ![writer] = Append(@, "stream_closed")]
                         ELSE teardown
          /\ reader' = NoHandle
          /\ writer' = NoHandle
          /\ Finish(Ended("close", "return", 0, NoLine))
          /\ UNCHANGED <<runtime_cmd, runtime_addr, process, counter, wire, eof, signals>>
       \/ /\ ~runtime_addr
          /\ process = NoHandle
          /\ Finish(Ended("close", "AttributeError", 0, NoLine))
          /\ UNCHANGED <<runtime_cmd, runtime_addr, process, reader, writer, counter, wire,
                         transport, eof, signals, teardown>>
       \/ /\ ~runtime_addr
          /\ process # NoHandle
          /\ transport' = [transport EXCEPT ![process] = "closing"]
          /\ signals' = signals + 1
          /\ teardown' = [teardown EXCEPT ![process] = @ \o <<"stdin_closed", "terminate">>]
          /\ pc' = "close_wait"
          /\ UNCHANGED <<runtime_cmd, runtime_addr, process, reader, writer, counter, wire, eof,
                         outcome, prevOp, runner, exc>>

\* A faulty close() that drops a socket's handles without closing the
\* stream, and signals a subprocess without closing its stdin.
CloseLeaky ==
    /\ UNCHANGED <<dvars, hvars>>
    /\ pc = "idle"
    /\ runner \in {"off", "finally"}
    /\ \/ /\ runtime_addr
          /\ reader' = NoHandle
          /\ writer' = NoHandle
          /\ Finish(Ended("close", "return", 0, NoLine))
          /\ UNCHANGED <<runtime_cmd, runtime_addr, process, counter, wire, transport, eof,
                         signals, teardown>>
       \/ /\ ~runtime_addr
          /\ process = NoHandle
          /\ Finish(Ended("close", "return", 0, NoLine))
          /\ UNCHANGED <<runtime_cmd, runtime_addr, process, reader, writer, counter, wire,
                         transport, eof, signals, teardown>>
       \/ /\ ~runtime_addr
          /\ process # NoHandle
          /\ transport' = [transport EXCEPT ![process] = "closing"]
          /\ signals' = signals + 1
          /\ teardown' = [teardown EXCEPT ![process] = Append(@, "terminate")]
          /\ pc' = "close_wait"
          /\ UNCHANGED <<runtime_cmd, runtime_addr, process, reader, writer, counter, wire, eof,
                         outcome, prevOp, runner, exc>>

\* close() (client.py 60-79) up to the wait for the subprocess: a socket is
\* closed and the handles dropped; a subprocess has its stdin closed and is
\* sent the termination signal.
Close ==
    /\ UNCHANGED <<dvars, hvars>>
    /\ pc = "idle"
    /\ runner \in {"off", "finally"}
    /\ \/ /\ runtime_addr
          /\ transport' = IF writer # NoHandle
                          THEN [transport EXCEPT ![writer] = "closed"]
                          ELSE transport
          /\ teardown' = IF writer # NoHandle
                         THEN [teardown EXCEPT ![writer] = Append(@, "stream_closed")]
                         ELSE teardown
          /\ reader' = NoHandle
          /\ writer' = NoHandle
          /\ Finish(Ended("close", "return", 0, NoLine))
          /\ UNCHANGED <<runtime_cmd, runtime_addr, process, counter, wire, eof, signals>>
       \/ /\ ~runtime_addr
          /\ process = NoHandle
          /\ Finish(Ended("close", "return", 0, NoLine))
          /\ UNCHANGED <<runtime_cmd, runtime_addr, process, reader, writer, counter, wire,
                         transport, eof, signals, teardown>>
       \/ /\ ~runtime_addr
          /\ process # NoHandle
          /\ transport' = [transport EXCEPT ![process] = "closing"]
          /\ signals' = signals + 1
          /\ teardown' = [teardown EXCEPT ![process] = @ \o <<"stdin_closed", "terminate">>]
          /\ pc' = "close_wait"
          /\ UNCHANGED <<runtime_cmd, runtime_addr, process, reader, writer, counter, wire, eof,
                         outcome, prevOp, runner, exc>>

\* close() once the subprocess has exited and been waited for (client.py
\* 76-79): the handles are dropped.
CloseWait ==
    /\ UNCHANGED <<dvars, hvars>>
    /\ pc = "close_wait"
    /\ transport' = [transport EXCEPT ![process] = "closed"]
    /\ process' = NoHandle
    /\ reader' = NoHandle
    /\ writer' = NoHandle
    /\ teardown' = [teardown EXCEPT ![process] = Append(@, "waited")]
    /\ Finish(Ended("close", "return", 0, NoLine))
    /\ UNCHANGED <<runtime_cmd, runtime_addr, counter, wire, eof, signals>>

\* A faulty _send that takes the next id before it looks at the reader and
\* the writer.
RequestCountsRefused(method, command) ==
    /\ UNCHANGED <<dvars, hvars>>
    /\ pc = "idle"
    /\ \/ /\ (writer = NoHandle \/ reader = NoHandle)
          /\ counter <= MaxRequests
          /\ counter' = counter + 1
          /\ Finish(Ended(method, "NotConnected", 0, NoLine))
          /\ UNCHANGED <<runtime_cmd, runtime_addr, process, reader, writer, wire,
                         transport, eof, signals, teardown>>
       \/ /\ writer # NoHandle
          /\ reader # NoHandle
          /\ SendWrite(writer, method, command)
          /\ UNCHANGED <<runtime_cmd, runtime_addr, process, reader, writer, transport, eof,
                         signals, teardown, outcome, prevOp, runner, exc>>

\* A public method that sends one request (client.py 81-110) and _send up
\* to its first await (121-134): refused on a client without reader or
\* writer.
Request(method, command) ==
    /\ UNCHANGED <<dvars, hvars>>
    /\ pc = "idle"
    /\ \/ /\ (writer = NoHandle \/ reader = NoHandle)
          /\ Finish(Ended(method, "NotConnected", 0, NoLine))
          /\ UNCHANGED <<runtime_cmd, runtime_addr, process, reader, writer, counter, wire,
                         transport, eof, signals, teardown>>
       \/ /\ writer # NoHandle
          /\ reader # NoHandle
          /\ SendWrite(writer, method, command)
          /\ UNCHANGED <<runtime_cmd, runtime_addr, process, reader, writer, transport, eof,
                         signals, teardown, outcome, prevOp, runner, exc>>

\* status() (client.py 81-84).
Status ==
    /\ runner \in {"off", "status"}
    /\ Request("status", "status")

\* send_message(actor, facet, payload) (client.py 86-98).
SendMessage ==
    /\ runner \in {"off", "send_message"}
    /\ Request("send_message", "send_message")

\* invoke_capability(capability, payload) (client.py 103-110).
InvokeCapability ==
    /\ runner \in {"off", "invoke_capability"}
    /\ Request("invoke_capability", "invoke_capability")

Next ==
    \/ Connect
    \/ Call
    \/ ReceiveLine
    \/ Interrupt
    \/ Close
    \/ CloseWait

Spec == Init /\ [][Next]_vars


\* ---------------------------------------------------------------- claims
\* The handshake on transport c was the first request written on it and was
\* answered by a success envelope.
HandshakeSucceeded(c) ==
    \E i \in DOMAIN wire :
        /\ wire[i].conn = c
        /\ \A j \in 1..(i - 1) : wire[j].conn # c
        /\ wire[i].command = "handshake"
        /\ wire[i].state = "result"

\* C1: no request other than the handshake is written on a connection
\* unless the handshake was the first request written on it and was
\* answered by a success envelope.
C1_HandshakeBeforeCommands ==
    \A i \in DOMAIN wire :
        wire[i].command # "handshake" => HandshakeSucceeded(wire[i].conn)

\* C2: at most one request is outstanding: a request still waiting for its
\* response line is the last one written, and its sender is suspended in
\* _send; every earlier request has been answered or has failed.
C2_OneOutstanding ==
    \A i \in DOMAIN wire :
        wire[i].state = "pending" => (i = Len(wire) /\ pc = "awaiting")

C2_Witness ==
    /\ Len(wire) = 3
    /\ wire[1].state = "result"
    /\ wire[2].state = "error"
    /\ wire[3].state = "pending"

\* C3: when call() returns a result or raises a ProtocolError for the
\* request it sent with id N, the response line it decoded carries id N
\* (stated for calls on a connection whose handshake succeeded).
C3_ResponseIdMatches ==
    (outcome.op = "call" /\ outcome.reqid # 0
        /\ outcome.kind \in {"return", "ProtocolError"}
        /\ \A i \in DOMAIN wire :
             wire[i].id = outcome.reqid => HandshakeSucceeded(wire[i].conn))
    => outcome.line.id = outcome.reqid

\* C4: when the runtime answers a call with a success envelope whose result
\* is r, call() returns a value that is r, in type and in value: encoding
\* what was returned gives r back.
C4_ResultUnchanged ==
    (outcome.op = "call" /\ outcome.line.shape = "object"
        /\ outcome.line.has = {"result"})
    => (outcome.kind = "return" /\ dumps(outcome.value) = outcome.line.result)

C4_Witness ==
    /\ outcome.op = "call"
    /\ outcome.kind = "return"
    /\ outcome.line.has = {"result"}
    /\ outcome.line.result = JObject

\* C5: for an error envelope with error.message m, error.code c and
\* error.details d, call() raises a ProtocolError whose message, code and
\* details are m, c and d; an absent or null code or details is None.
C5_ErrorVerbatim ==
    (outcome.op = "call" /\ outcome.line.shape = "object"
        /\ "error" \in outcome.line.has /\ outcome.line.error.isobj
        /\ "message" \in outcome.line.error.has)
    => /\ outcome.kind = "ProtocolError"
       /\ dumps(outcome.message) = outcome.line.error.message
       /\ IF "code" \in outcome.line.error.has
          THEN dumps(outcome.code) = outcome.line.error.code
          ELSE outcome.code = PyNone
       /\ IF "details" \in outcome.line.error.has
          THEN dumps(outcome.details) = outcome.line.error.details
          ELSE outcome.details = PyNone
       /\ (outcome.line.error.code = JNull => outcome.code = PyNone)
       /\ (outcome.line.error.details = JNull => outcome.details = PyNone)

C5_Witness ==
    /\ outcome.op = "call"
    /\ outcome.kind = "ProtocolError"
    /\ outcome.line.error.has = {"message", "details"}
    /\ outcome.details = loads(JObject)
    /\ outcome.code = PyNone

\* C6: when readline() yields end of stream where a response line is
\* expected, the method fails with the connection-closed error: it returns
\* no value and its request is no longer waited for.
C6_EofFailsClosed ==
    outcome.line.shape = "eof"
    => /\ outcome.kind = "ConnectionClosed"
       /\ \A i \in DOMAIN wire :
            wire[i].id = outcome.reqid => wire[i].state = "closed"

C6_Witness ==
    /\ outcome.op = "call"
    /\ outcome.line.shape = "eof"
    /\ outcome.kind = "ConnectionClosed"
    /\ ~runtime_addr
    /\ pc = "idle"

\* C7: a request consumes at most one response line, and once a call has
\* failed with connection-closed no further request is written on that
\* connection (stated for connections whose handshake succeeded).
C7_NoWriteAfterClosed ==
    \A i \in DOMAIN wire :
        /\ wire[i].reads <= 1
        /\ (wire[i].state = "pending" /\ HandshakeSucceeded(wire[i].conn))
           => wire[i].conn \notin eof

\* C8: the ids a client puts in its envelopes are 1, 2, 3, ... in the order
\* the requests are written, over handshakes, failed requests and
\* reconnections alike.
C8_IdsSequential ==
    \A i \in DOMAIN wire : wire[i].id = i

C8_Witness ==
    /\ Len(wire) = 3
    /\ wire[1].command = "handshake"
    /\ wire[2].state \in {"error", "closed"}
    /\ wire[3].command = "handshake"
    /\ wire[3].conn = 2

\* C9: when a command runner has finished, on whatever path, every
\* transport it opened has been closed.
C9_TransportClosedAtExit ==
    runner = "done" => \A c \in Conns : transport[c] \in {"unopened", "closed"}

\* C10: close() returns normally and leaves the client without reader,
\* writer and process; on a client that holds none of them (never
\* connected, launch failed, already closed) it changes no state and
\* signals no process.
C10_CloseSafe ==
    [][ (pc \in {"idle", "close_wait"} /\ pc' = "idle" /\ outcome'.op = "close")
        => /\ outcome'.kind = "return"
           /\ reader' = NoHandle
           /\ writer' = NoHandle
           /\ process' = NoHandle
           /\ (pc = "idle" /\ reader = NoHandle /\ writer = NoHandle
                  /\ process = NoHandle)
              => UNCHANGED <<runtime_cmd, runtime_addr, process, reader, writer, counter, wire,
                             transport, eof, signals, teardown>> ]_vars

C10_Witness ==
    /\ prevOp = "close"
    /\ outcome.op = "close"
    /\ outcome.kind = "return"
    /\ pc = "idle"
    /\ \E c \in Conns : transport[c] = "closed"
    /\ \E i \in DOMAIN wire : wire[i].command = "handshake" /\ wire[i].state = "error"

\* C11: when close() has returned, a pipe transport has had its stdin
\* closed, its termination requested and its exit waited for, in that
\* order, a socket transport has had its stream closed, and the client
\* holds no reader, writer or process.
C11_CloseTearsDown ==
    (outcome.op = "close" /\ pc = "idle")
    => /\ reader = NoHandle
       /\ writer = NoHandle
       /\ process = NoHandle
       /\ \A c \in Conns :
            /\ transport[c] \in {"unopened", "closed"}
            /\ transport[c] = "closed"
               => teardown[c] = IF runtime_addr
                                THEN <<"stream_closed">>
                                ELSE <<"stdin_closed", "terminate", "waited">>

C11_Witness ==
    /\ outcome.op = "close"
    /\ pc = "idle"
    /\ ~runtime_addr
    /\ prevOp = "call"
    /\ Len(wire) >= 1
    /\ transport[wire[1].conn] = "closed"
    /\ teardown[1] = <<"stdin_closed", "terminate", "waited">>

\* C12: connect() on a client that has a reader is a no-op: no step of a
\* connected, idle client opens a transport or writes a handshake, an id is
\* taken only by a request that is written, and the connect() that returns
\* there has changed nothing.
C12_ConnectNoop ==
    [][ (pc = "idle" /\ reader # NoHandle)
        => /\ \A c \in Conns : transport[c] = "unopened" => transport'[c] = "unopened"
           /\ Len(wire') > Len(wire) => wire'[Len(wire')].command # "handshake"
           /\ counter' # counter => Len(wire') > Len(wire)
           /\ (pc' = "idle" /\ outcome'.op = "connect")
              => /\ outcome'.kind = "return"
                 /\ outcome'.reqid = 0
                 /\ UNCHANGED <<runtime_cmd, runtime_addr, process, reader, writer, counter, wire,
                                transport, eof, signals, teardown>> ]_vars

C12_Witness ==
    /\ prevOp = "connect"
    /\ outcome.op = "connect"
    /\ outcome.kind = "return"
    /\ outcome.reqid = 0
    /\ reader # NoHandle
    /\ pc = "idle"
    /\ Len(wire) = 1

\* ------------------------------------------- the daemon supervisor's steps
\* The client's variables while only the supervisor is looked at.
NoClient ==
    /\ runtime_cmd = TRUE
    /\ runtime_addr = FALSE
    /\ process = NoHandle
    /\ reader = NoHandle
    /\ writer = NoHandle
    /\ counter = 1
    /\ pc = "idle"
    /\ wire = <<>>
    /\ transport = [c \in Conns |-> "unopened"]
    /\ eof = {}
    /\ signals = 0
    /\ teardown = [c \in Conns |-> <<>>]
    /\ outcome = Ended("init", "return", 0, NoLine)
    /\ prevOp = "init"
    /\ runner = "off"
    /\ exc = "none"

\* One root on which an earlier daemon (pid 1) was started: it still runs or
\* has exited, listens or does not, and daemon.json is missing, unreadable
\* or names it. One CLI invocation runs at a time.
InitDaemon ==
    /\ NoHelper
    /\ NoClient
    /\ \E q \in Ports :
         /\ \E a, b \in BOOLEAN :
              /\ b => a
              /\ procs = <<Process("daemon", IF a THEN q ELSE NoPort, a, b)>>
         /\ record \in {AbsentFile, CorruptFile,
                        Payload(DaemonState(1, DEFAULT_DAEMON_HOST, q))}
    /\ inv = [i \in Invocations |-> IdleInvocation]
    /\ active = {1}

\* Invocation i moves on to the local state `next`.
Goto(i, next) == inv' = [inv EXCEPT ![i] = next]

\* Invocation i is at position `at` of command `op`.
At(i, op, at) == i \in active /\ inv[i].op = op /\ inv[i].pc = at

\* The CLI starts a command that first loads the record.
Begin(i, op, port) ==
    /\ i \in active
    /\ inv[i].pc = "idle"
    /\ Goto(i, [IdleInvocation EXCEPT !.op = op, !.pc = "load", !.port = port])
    /\ UNCHANGED <<cvars, hvars, record, procs, active>>

\* A faulty _load_daemon_state that returns None for a file it cannot parse
\* and leaves the file.
LoadKeeps(i) ==
    /\ i \in active
    /\ inv[i].pc = "load"
    /\ LET me == [inv[i] EXCEPT !.did = @ \cup {"read"}]
       IN  CASE record.kind = "absent" ->
                  Goto(i, [me EXCEPT !.pc = "loaded"])
             [] record.kind = "corrupt" \/ int(record.form) # "int" ->
                  Goto(i, [me EXCEPT !.pc = "loaded"])
             [] OTHER ->
                  IF _is_process_alive(record.pid)
                  THEN Goto(i, [me EXCEPT !.pc = "loaded",
                                          !.loaded = DaemonState(record.pid, record.host,
                                                                 record.port)])
                  ELSE Goto(i, [me EXCEPT !.pc = "load_unlink",
                                          !.seen = DaemonState(record.pid, record.host,
                                                               record.port)])
    /\ UNCHANGED <<cvars, hvars, record, procs, active>>

\* _load_daemon_state up to its unlink (cli.py 160-180): no file is None; a
\* file that does not parse, or names a pid that is not alive, is unlinked
\* next; else the parsed DaemonState is returned.
Load(i) ==
    /\ i \in active
    /\ inv[i].pc = "load"
    /\ LET me == [inv[i] EXCEPT !.did = @ \cup {"read"}]
       IN  CASE record.kind = "absent" ->
                  Goto(i, [me EXCEPT !.pc = "loaded"])
             [] record.kind = "corrupt" \/ int(record.form) # "int" ->
                  Goto(i, [me EXCEPT !.pc = "load_unlink"])
             [] OTHER ->
                  IF _is_process_alive(record.pid)
                  THEN Goto(i, [me EXCEPT !.pc = "loaded",
                                          !.loaded = DaemonState(record.pid, record.host,
                                                                 record.port)])
                  ELSE Goto(i, [me EXCEPT !.pc = "load_unlink",
                                          !.seen = DaemonState(record.pid, record.host,
                                                               record.port)])
    /\ UNCHANGED <<cvars, hvars, record, procs, active>>

\* The unlink of _load_daemon_state (cli.py 173-174, 177-178): whatever file
\* is at the path goes, and the caller gets None.
LoadUnlink(i) ==
    /\ i \in active
    /\ inv[i].pc = "load_unlink"
    /\ record' = AbsentFile
    /\ Goto(i, [inv[i] EXCEPT !.pc = "loaded", !.did = @ \cup {"unlink"}])
    /\ UNCHANGED <<cvars, hvars, procs, active>>

\* A faulty _connect_client that looks the record up although the caller
\* named the runtime's address.
ResolveBeginLookup(i) ==
    /\ i \in active
    /\ inv[i].pc = "idle"
    /\ Len(procs) <= MaxSpawns
    /\ \E host \in {"", DEFAULT_DAEMON_HOST}, port \in Ports \cup {NoPort} :
         Goto(i, [IdleInvocation EXCEPT !.op = "resolve", !.remote = Addr(host, port),
                                        !.pc = "load"])
    /\ UNCHANGED <<cvars, hvars, record, procs, active>>

\* _connect_client up to the record lookup (cli.py 1571-1577): with both
\* --daemon-host and --daemon-port given, that address is the runtime's
\* and the record is not looked at.
ResolveBegin(i) ==
    /\ i \in active
    /\ inv[i].pc = "idle"
    /\ Len(procs) <= MaxSpawns
    /\ \E host \in {"", DEFAULT_DAEMON_HOST}, port \in Ports \cup {NoPort} :
         IF host # "" /\ port # NoPort
         THEN Goto(i, [IdleInvocation EXCEPT !.op = "resolve", !.remote = Addr(host, port),
                                             !.addr = Addr(host, port),
                                             !.transport = "socket", !.pc = "construct"])
         ELSE Goto(i, [IdleInvocation EXCEPT !.op = "resolve", !.remote = Addr(host, port),
                                             !.pc = "load"])
    /\ UNCHANGED <<cvars, hvars, record, procs, active>>

\* A faulty _connect_client that trusts a record whose pid is alive
\* without probing its address.
ResolveProbeNoPing(i) ==
    /\ At(i, "resolve", "loaded")
    /\ LET me == inv[i]
       IN  IF me.loaded = NoState
           THEN Goto(i, [me EXCEPT !.transport = "pipe", !.pc = "construct"])
           ELSE IF _is_process_alive(me.loaded.pid)
                THEN Goto(i, [me EXCEPT !.transport = "socket", !.pc = "construct",
                                        !.addr = Addr(me.loaded.host, me.loaded.port)])
                ELSE Goto(i, [me EXCEPT !.seen = me.loaded, !.pc = "clear"])
    /\ UNCHANGED <<cvars, hvars, record, procs, active>>

\* _connect_client on what was loaded (cli.py 1578-1582): a record whose pid
\* is alive and whose address accepts a connection gives the runtime's
\* address; any other record is cleared next; no record gives no address.
ResolveProbe(i) ==
    /\ At(i, "resolve", "loaded")
    /\ LET me == inv[i]
       IN  IF me.loaded = NoState
           THEN Goto(i, [me EXCEPT !.transport = "pipe", !.pc = "construct"])
           ELSE IF ~_is_process_alive(me.loaded.pid)
                THEN Goto(i, [me EXCEPT !.seen = me.loaded, !.pc = "clear"])
                ELSE IF _ping_daemon(me.loaded.host, me.loaded.port)
                     THEN Goto(i, [me EXCEPT !.transport = "socket", !.pc = "construct",
                                             !.addr = Addr(me.loaded.host, me.loaded.port),
                                             !.did = @ \cup {"ping"}])
                     ELSE Goto(i, [me EXCEPT !.seen = me.loaded, !.pc = "clear",
                                             !.did = @ \cup {"ping"}])
    /\ UNCHANGED <<cvars, hvars, record, procs, active>>

\* A faulty _connect_client that leaves the record it judged stale.
ResolveClearKeeps(i) ==
    /\ At(i, "resolve", "clear")
    /\ Goto(i, [inv[i] EXCEPT !.transport = "pipe", !.pc = "construct"])
    /\ UNCHANGED <<cvars, hvars, record, procs, active>>

\* _clear_daemon_state from _connect_client (cli.py 1583-1584, 189-192).
ResolveClear(i) ==
    /\ At(i, "resolve", "clear")
    /\ record' = AbsentFile
    /\ Goto(i, [inv[i] EXCEPT !.transport = "pipe", !.pc = "construct",
                              !.did = @ \cup {"unlink"}])
    /\ UNCHANGED <<cvars, hvars, procs, active>>

\* The client is made and connected (cli.py 1586-1592, client.py 40-58): to
\* the runtime's address, which fails when nothing accepts there, or else
\* to a subprocess of its own.
ResolveConnect(i) ==
    /\ At(i, "resolve", "construct")
    /\ LET me == inv[i]
       IN  IF me.addr # NoAddr
           THEN /\ IF _ping_daemon(me.addr.host, me.addr.port)
                   THEN Goto(i, [me EXCEPT !.pc = "connected"])
                   ELSE Goto(i, [me EXCEPT !.pc = "idle", !.result = "ConnectError"])
                /\ UNCHANGED procs
           ELSE /\ Len(procs) <= MaxSpawns
                /\ procs' = Append(procs, Process("pipe", NoPort, TRUE, FALSE))
                /\ Goto(i, [me EXCEPT !.pc = "connected", !.child = Len(procs) + 1,
                                      !.did = @ \cup {"spawn_pipe"}])
    /\ UNCHANGED <<cvars, hvars, record, active>>

\* A faulty runner that drops a pipe client without closing it.
ResolveCloseDetached(i) ==
    /\ At(i, "resolve", "connected")
    /\ Goto(i, [inv[i] EXCEPT !.pc = "idle", !.result = "closed"])
    /\ UNCHANGED <<cvars, hvars, record, procs, active>>

\* The runner's `finally: await client.close()` (cli.py 1133-1134, client.py
\* 60-79): a pipe client's subprocess is terminated and waited for.
ResolveClose(i) ==
    /\ At(i, "resolve", "connected")
    /\ LET me == inv[i]
       IN  IF me.child # NoPid
           THEN /\ procs' = [procs EXCEPT ![me.child] = Process(@.kind, NoPort, FALSE, FALSE)]
                /\ Goto(i, [me EXCEPT !.pc = "idle", !.result = "closed",
                                      !.did = @ \cup {"terminate"}])
           ELSE /\ UNCHANGED procs
                /\ Goto(i, [me EXCEPT !.pc = "idle", !.result = "closed"])
    /\ UNCHANGED <<cvars, hvars, record, active>>

\* The ports _pick_free_port can be given: those nothing listens on.
FreePorts == {q \in Ports : ~_ping_daemon(DEFAULT_DAEMON_HOST, q)}

\* `duet daemon start [--port port]` is invoked (cli.py 912-920).
StartBegin(i) ==
    /\ Len(procs) <= MaxSpawns
    /\ \E port \in Ports \cup {NoPort} : Begin(i, "start", port)

\* A faulty daemon_start that spawns a daemon whatever it loaded.
StartCheckAlways(i) ==
    /\ At(i, "start", "loaded")
    /\ LET me == inv[i]
       IN  IF me.port # NoPort
           THEN Goto(i, [me EXCEPT !.pc = "spawn"])
           ELSE IF FreePorts = {}
                THEN Goto(i, [me EXCEPT !.pc = "idle", !.result = "OSError"])
                ELSE \E q \in FreePorts :
                       Goto(i, [me EXCEPT !.pc = "spawn", !.port = q])
    /\ UNCHANGED <<cvars, hvars, record, procs, active>>

\* daemon_start on what was loaded (cli.py 921-928): a record whose address
\* accepts a connection ends the command; else the port is the one given
\* or a free one.
StartCheck(i) ==
    /\ At(i, "start", "loaded")
    /\ LET me == inv[i]
           existing == me.loaded # NoState
           pinged == [me EXCEPT !.did = IF existing THEN @ \cup {"ping"} ELSE @,
                                !.seen = IF existing THEN me.loaded ELSE @]
       IN  IF existing /\ _ping_daemon(me.loaded.host, me.loaded.port)
           THEN Goto(i, [me EXCEPT !.pc = "idle", !.result = "already",
                                   !.did = @ \cup {"ping"}])
           ELSE IF me.port # NoPort
                THEN Goto(i, [pinged EXCEPT !.pc = "spawn"])
                ELSE IF FreePorts = {}
                     THEN Goto(i, [pinged EXCEPT !.pc = "idle", !.result = "OSError"])
                     ELSE \E q \in FreePorts :
                            Goto(i, [pinged EXCEPT !.pc = "spawn", !.port = q])
    /\ UNCHANGED <<cvars, hvars, record, procs, active>>

\* subprocess.Popen of the daemon with --listen host:port (cli.py 930-944).
StartSpawn(i) ==
    /\ At(i, "start", "spawn")
    /\ Len(procs) <= MaxSpawns
    /\ procs' = Append(procs, Process("daemon", inv[i].port, TRUE, FALSE))
    /\ Goto(i, [inv[i] EXCEPT !.pc = "await", !.child = Len(procs) + 1,
                              !.did = @ \cup {"spawn_daemon"}])
    /\ UNCHANGED <<cvars, hvars, record, active>>

\* A faulty _await_daemon that returns without a probe having succeeded.
StartAwaitBlind(i) ==
    /\ At(i, "start", "await")
    /\ Goto(i, [inv[i] EXCEPT !.pc = "save"])
    /\ UNCHANGED <<cvars, hvars, record, procs, active>>

\* A faulty _await_daemon that probes until a probe succeeds.
StartAwaitForever(i) ==
    /\ At(i, "start", "await")
    /\ LET me == [inv[i] EXCEPT !.did = @ \cup {"ping"}]
       IN  IF _ping_daemon(DEFAULT_DAEMON_HOST, me.port)
           THEN Goto(i, [me EXCEPT !.pc = "save", !.tries = 0])
           ELSE Goto(i, me)
    /\ UNCHANGED <<cvars, hvars, record, procs, active>>

\* One round of _await_daemon (cli.py 245-250): a probe that succeeds ends
\* the wait; the last of `retries` probes that fail raises.
StartAwait(i) ==
    /\ At(i, "start", "await")
    /\ LET me == [inv[i] EXCEPT !.did = @ \cup {"ping"}]
       IN  IF _ping_daemon(DEFAULT_DAEMON_HOST, me.port)
           THEN Goto(i, [me EXCEPT !.pc = "save", !.tries = 0])
           ELSE IF me.tries + 1 = retries
                THEN Goto(i, [me EXCEPT !.tries = @ + 1, !.pc = "timeout"])
                ELSE Goto(i, [me EXCEPT !.tries = @ + 1])
    /\ UNCHANGED <<cvars, hvars, record, procs, active>>

\* daemon_start when the wait raised (cli.py 948-952): SIGTERM is sent to
\* the spawned process and the command fails; whether and when the process
\* exits is the process's.
StartTimeout(i) ==
    /\ At(i, "start", "timeout")
    /\ Goto(i, [inv[i] EXCEPT !.pc = "idle", !.tries = 0, !.result = "failed",
                              !.did = @ \cup {"SIGTERM"}])
    /\ UNCHANGED <<cvars, hvars, record, procs, active>>

\* A _save_daemon_state that creates the file exclusively: a record that
\* is there is left as it is.
StartSaveExclusive(i) ==
    /\ At(i, "start", "save")
    /\ record' = IF record.kind = "record"
                 THEN record
                 ELSE Payload(DaemonState(inv[i].child, DEFAULT_DAEMON_HOST, inv[i].port))
    /\ Goto(i, [inv[i] EXCEPT !.pc = "idle", !.tries = 0, !.result = "started",
                              !.did = @ \cup {"write"}])
    /\ UNCHANGED <<cvars, hvars, procs, active>>

\* _save_daemon_state of the spawned pid and the listen address (cli.py 954,
\* 183-186).
StartSave(i) ==
    /\ At(i, "start", "save")
    /\ record' = Payload(DaemonState(inv[i].child, DEFAULT_DAEMON_HOST, inv[i].port))
    /\ Goto(i, [inv[i] EXCEPT !.pc = "idle", !.tries = 0, !.result = "started",
                              !.did = @ \cup {"write"}])
    /\ UNCHANGED <<cvars, hvars, procs, active>>

\* `duet daemon stop` and `duet daemon status` are invoked (cli.py 960-971).
StopBegin(i) == Begin(i, "stop", NoPort)

StatusBegin(i) == Begin(i, "status", NoPort)

\* _stop_daemon_if_running is run by `daemon stop` and by `clear` (cli.py
\* 966, 1025): invocation i is at position `at` of it.
AtStop(i, at) == i \in active /\ inv[i].op \in {"stop", "clear"} /\ inv[i].pc = at

\* Where its caller goes on when it has returned: `daemon stop` ends,
\* `clear` removes the root directory next.
Stopped(me) == IF me.op = "clear" THEN "rmtree" ELSE "idle"

\* A faulty _stop_daemon_if_running that goes on to clear the record and
\* report a stop when nothing was loaded.
StopCheckBlind(i) ==
    /\ AtStop(i, "loaded")
    /\ LET me == inv[i]
       IN  IF me.loaded # NoState /\ _is_process_alive(me.loaded.pid)
           THEN Goto(i, [me EXCEPT !.pc = "sigterm"])
           ELSE Goto(i, [me EXCEPT !.pc = "stop_clear"])
    /\ UNCHANGED <<cvars, hvars, record, procs, active>>

\* _stop_daemon_if_running on what was loaded (cli.py 196-202): nothing
\* loaded ends the command; a pid that is alive is signalled next.
StopCheck(i) ==
    /\ AtStop(i, "loaded")
    /\ LET me == inv[i]
       IN  IF me.loaded = NoState
           THEN Goto(i, [me EXCEPT !.pc = Stopped(me), !.result = "not_running"])
           ELSE IF _is_process_alive(me.loaded.pid)
                THEN Goto(i, [me EXCEPT !.pc = "sigterm"])
                ELSE Goto(i, [me EXCEPT !.pc = "stop_clear", !.seen = me.loaded])
    /\ UNCHANGED <<cvars, hvars, record, procs, active>>

\* os.kill(pid, SIGTERM) (cli.py 203-206): a pid that is gone by now raises
\* ProcessLookupError, which skips the polls.
StopTerm(i) ==
    /\ AtStop(i, "sigterm")
    /\ IF _is_process_alive(inv[i].loaded.pid)
       THEN Goto(i, [inv[i] EXCEPT !.pc = "poll", !.did = @ \cup {"SIGTERM"}])
       ELSE Goto(i, [inv[i] EXCEPT !.pc = "stop_clear"])
    /\ UNCHANGED <<cvars, hvars, record, procs, active>>

\* A faulty death-poll loop that escalates at the first poll that finds the
\* pid alive.
StopPollEager(i) ==
    /\ AtStop(i, "poll")
    /\ LET me == inv[i]
       IN  IF ~_is_process_alive(me.loaded.pid)
           THEN Goto(i, [me EXCEPT !.pc = "stop_clear", !.tries = 0])
           ELSE Goto(i, [me EXCEPT !.tries = @ + 1, !.pc = "sigkill"])
    /\ UNCHANGED <<cvars, hvars, record, procs, active>>

\* One death poll (cli.py 208-211): a pid found dead ends the polls; the
\* last of DeathPolls polls that find it alive leads to the kill.
StopPoll(i) ==
    /\ AtStop(i, "poll")
    /\ LET me == inv[i]
       IN  IF ~_is_process_alive(me.loaded.pid)
           THEN Goto(i, [me EXCEPT !.pc = "stop_clear", !.tries = 0])
           ELSE IF me.tries + 1 = DeathPolls
                THEN Goto(i, [me EXCEPT !.tries = @ + 1, !.pc = "sigkill"])
                ELSE Goto(i, [me EXCEPT !.tries = @ + 1])
    /\ UNCHANGED <<cvars, hvars, record, procs, active>>

\* os.kill(pid, SIGKILL) (cli.py 212-214); when the process is gone is the
\* kernel's.
StopKill(i) ==
    /\ AtStop(i, "sigkill")
    /\ Goto(i, [inv[i] EXCEPT !.pc = "stop_clear", !.tries = 0,
                              !.did = @ \cup {"SIGKILL"}])
    /\ UNCHANGED <<cvars, hvars, record, procs, active>>

\* A faulty _stop_daemon_if_running that keeps the record of a pid it still
\* finds alive.
StopClearIfDead(i) ==
    /\ AtStop(i, "stop_clear")
    /\ record' = IF _is_process_alive(inv[i].loaded.pid) THEN record ELSE AbsentFile
    /\ Goto(i, [inv[i] EXCEPT !.pc = Stopped(inv[i]), !.tries = 0, !.result = "stopped",
                              !.did = @ \cup {"unlink"}])
    /\ UNCHANGED <<cvars, hvars, procs, active>>

\* _clear_daemon_state at the end of _stop_daemon_if_running (cli.py 216-219).
StopClear(i) ==
    /\ AtStop(i, "stop_clear")
    /\ record' = AbsentFile
    /\ Goto(i, [inv[i] EXCEPT !.pc = Stopped(inv[i]), !.tries = 0, !.result = "stopped",
                              !.did = @ \cup {"unlink"}])
    /\ UNCHANGED <<cvars, hvars, procs, active>>

\* A faulty daemon_status that also clears the record of a live pid whose
\* address does not answer.
StatusReportCleans(i) ==
    /\ At(i, "status", "loaded")
    /\ LET me == inv[i]
           pinged == [me EXCEPT !.did = @ \cup {"ping"}]
       IN  IF me.loaded = NoState
           THEN Goto(i, [me EXCEPT !.pc = "idle", !.result = "not_running"])
           ELSE IF _is_process_alive(me.loaded.pid)
                   /\ _ping_daemon(me.loaded.host, me.loaded.port)
                THEN Goto(i, [pinged EXCEPT !.pc = "idle", !.result = "reachable"])
                ELSE Goto(i, [pinged EXCEPT !.pc = "status_clear", !.seen = me.loaded])
    /\ UNCHANGED <<cvars, hvars, record, procs, active>>

\* daemon_status on what was loaded (cli.py 972-990): nothing loaded is "not
\* running"; a pid that is not alive has its record cleared next; a pid that
\* is alive is reported with whether its address answered.
StatusReport(i) ==
    /\ At(i, "status", "loaded")
    /\ LET me == inv[i]
           pinged == [me EXCEPT !.did = @ \cup {"ping"}]
       IN  IF me.loaded = NoState
           THEN Goto(i, [me EXCEPT !.pc = "idle", !.result = "not_running"])
           ELSE IF ~_is_process_alive(me.loaded.pid)
                THEN Goto(i, [pinged EXCEPT !.pc = "status_clear", !.seen = me.loaded])
                ELSE IF _ping_daemon(me.loaded.host, me.loaded.port)
                     THEN Goto(i, [pinged EXCEPT !.pc = "idle", !.result = "reachable"])
                     ELSE Goto(i, [pinged EXCEPT !.pc = "idle", !.seen = me.loaded,
                                                 !.result = "not responding"])
    /\ UNCHANGED <<cvars, hvars, record, procs, active>>

\* _clear_daemon_state from daemon_status (cli.py 979-983).
StatusClear(i) ==
    /\ At(i, "status", "status_clear")
    /\ record' = AbsentFile
    /\ Goto(i, [inv[i] EXCEPT !.pc = "idle", !.result = "stale",
                              !.did = @ \cup {"unlink"}])
    /\ UNCHANGED <<cvars, hvars, procs, active>>

\* A daemon starts to listen on the port it was given, if nothing listens
\* there.
DaemonBind(p) ==
    /\ p \in DOMAIN procs
    /\ procs[p].kind = "daemon"
    /\ procs[p].alive
    /\ ~procs[p].bound
    /\ ~_ping_daemon(DEFAULT_DAEMON_HOST, procs[p].port)
    /\ procs' = [procs EXCEPT ![p].bound = TRUE]
    /\ UNCHANGED <<cvars, hvars, record, inv, active>>

\* A runtime process exits: on a signal, on an error, or killed.
ProcessExit(p) ==
    /\ p \in DOMAIN procs
    /\ procs[p].alive
    /\ procs' = [procs EXCEPT ![p] = Process(@.kind, NoPort, FALSE, FALSE)]
    /\ UNCHANGED <<cvars, hvars, record, inv, active>>

NextDaemon ==
    \/ \E i \in Invocations :
         \/ ResolveBegin(i)
         \/ StartBegin(i)
         \/ StopBegin(i)
         \/ StatusBegin(i)
         \/ Load(i)
         \/ LoadUnlink(i)
         \/ ResolveProbe(i)
         \/ ResolveClear(i)
         \/ ResolveConnect(i)
         \/ ResolveClose(i)
         \/ StartCheck(i)
         \/ StartSpawn(i)
         \/ StartAwait(i)
         \/ StartTimeout(i)
         \/ StartSave(i)
         \/ StopCheck(i)
         \/ StopTerm(i)
         \/ StopPoll(i)
         \/ StopKill(i)
         \/ StopClear(i)
         \/ StatusReport(i)
         \/ StatusClear(i)
    \/ \E p \in Pids :
         \/ DaemonBind(p)
         \/ ProcessExit(p)

SpecDaemon == InitDaemon /\ [][NextDaemon]_vars

\* ------------------------------------------------- claims on the supervisor
\* Invocation i took a step.
Moved(i) == inv'[i] # inv[i]

\* Invocation i runs _connect_client without both --daemon-host and
\* --daemon-port.
Unaddressed(i) ==
    inv[i].op = "resolve" /\ ~(inv[i].remote.host # "" /\ inv[i].remote.port # NoPort)

\* The record invocation i loaded names a live pid whose address accepts a
\* connection now.
Running(i) ==
    /\ inv[i].loaded # NoState
    /\ _is_process_alive(inv[i].loaded.pid)
    /\ _ping_daemon(inv[i].loaded.host, inv[i].loaded.port)

\* C13: without an explicit remote, _connect_client chooses the socket
\* transport, to the record's host:port, exactly when it loaded a record
\* whose pid is alive and whose host:port accepts a connection at the probe;
\* an invocation that chose it spawns nothing.
C13_SocketIffRunning ==
    [][ \A i \in Invocations :
          (Unaddressed(i) /\ inv[i].pc # "idle" /\ Moved(i))
          => /\ (inv[i].transport # "socket" /\ inv'[i].transport = "socket")
                <=> (inv[i].pc = "loaded" /\ Running(i))
             /\ inv'[i].transport = "socket"
                => /\ inv'[i].addr = Addr(inv[i].loaded.host, inv[i].loaded.port)
                   /\ inv'[i].child = NoPid
                   /\ procs' = procs ]_vars

C13_Witness ==
    /\ Unaddressed(1)
    /\ inv[1].pc = "connected"
    /\ inv[1].transport = "socket"
    /\ inv[1].addr = Addr(record.host, record.port)
    /\ inv[1].child = NoPid

FoundNoFile(i) ==
    /\ Unaddressed(i)
    /\ inv[i].pc \in {"loaded", "construct", "connected", "idle"}
    /\ inv[i].loaded = NoState
    /\ "unlink" \notin inv[i].did

Addressed(i) ==
    inv[i].op = "resolve" /\ inv[i].remote.host # "" /\ inv[i].remote.port # NoPort

\* C16: with an explicit remote host:port, _connect_client uses a socket
\* transport to that address and neither reads, probes nor deletes the
\* record, nor spawns anything, whatever the record file holds.
C16_ExplicitRemoteBypasses ==
    /\ [](\A i \in Invocations :
            Addressed(i)
            => /\ inv[i].transport = "socket"
               /\ inv[i].addr = inv[i].remote
               /\ inv[i].did = {}
               /\ inv[i].loaded = NoState
               /\ inv[i].child = NoPid)
    /\ [][ \A i \in Invocations :
             ((Addressed(i) \/ Addressed(i)') /\ Moved(i))
             => (record' = record /\ procs' = procs) ]_vars

C16_Witness ==
    /\ Addressed(1)
    /\ inv[1].pc = "connected"
    /\ record.kind = "record"
    /\ record.port # inv[1].addr.port

\* C17: when a command that judged a record stale (pid not alive, or
\* host:port not answering) has returned, that record is no longer in the
\* record file.
C17_StaleRecordRemoved ==
    \A i \in Invocations :
      (inv[i].op \in {"start", "stop", "status", "resolve"} /\ inv[i].pc = "idle"
          /\ inv[i].seen # NoState)
      => record # Payload(inv[i].seen)

\* C18: once daemon_start has failed on the readiness timeout, the process
\* it spawned is not alive and no record names its pid.
C18_TimeoutKillsSpawned ==
    \A i \in Invocations :
      (inv[i].op = "start" /\ inv[i].pc = "idle" /\ inv[i].result = "failed")
      => /\ ~_is_process_alive(inv[i].child)
         /\ record.pid # inv[i].child

\* Invocation i ends the wait for readiness, and writes the record.
EndsWait(i) == inv[i].op = "start" /\ inv[i].pc = "await" /\ inv'[i].pc = "save"

WritesRecord(i) == "write" \in inv'[i].did /\ "write" \notin inv[i].did

\* The process that listens on host:port, if one does.
Listener(host, port) ==
    IF _ping_daemon(host, port)
    THEN CHOOSE p \in DOMAIN procs :
           procs[p].alive /\ procs[p].bound /\ procs[p].port = port
    ELSE NoPid

\* C19 as stated: daemon_start writes the record only after a readiness
\* probe succeeded, with the pid it spawned and the host and port it passed
\* to --listen, and the pid of a freshly written record is the process that
\* listens on the recorded host:port.
C19_RecordedPidListens ==
    [][ \A i \in Invocations :
          /\ EndsWait(i) => _ping_daemon(DEFAULT_DAEMON_HOST, inv[i].port)
          /\ WritesRecord(i)
             => /\ inv[i].pc = "save"
                /\ record' = Payload(DaemonState(inv[i].child, DEFAULT_DAEMON_HOST,
                                                 inv[i].port))
                /\ procs[inv[i].child].kind = "daemon"
                /\ procs[inv[i].child].alive => procs[inv[i].child].port = record'.port
                /\ Listener(record'.host, record'.port) = record'.pid ]_vars

\* C19 amended: daemon_start writes the record only after a readiness probe
\* succeeded, with the pid it spawned and the host and port it passed to
\* --listen; the probe shows that some process accepted a connection on
\* host:port, not that the spawned one does.
C19_RecordAfterProbe ==
    [][ \A i \in Invocations :
          /\ EndsWait(i)
             => /\ _ping_daemon(DEFAULT_DAEMON_HOST, inv[i].port)
                /\ Listener(DEFAULT_DAEMON_HOST, inv[i].port) # NoPid
          /\ WritesRecord(i)
             => /\ inv[i].pc = "save"
                /\ record' = Payload(DaemonState(inv[i].child, DEFAULT_DAEMON_HOST,
                                                 inv[i].port))
                /\ procs[inv[i].child].kind = "daemon"
                /\ procs[inv[i].child].alive => procs[inv[i].child].port = record'.port ]_vars

C19_Witness ==
    /\ inv[1].op = "start"
    /\ inv[1].result = "started"
    /\ record = Payload(DaemonState(inv[1].child, DEFAULT_DAEMON_HOST, inv[1].port))
    /\ Listener(record.host, record.port) \notin {NoPid, record.pid}

\* C20: a daemon_start that finds the record of a daemon a start spawned,
\* its pid alive and its address answering, ends as "already running": it
\* spawns no process, picks no port and leaves the record file as it is.
C20_StartIdempotent ==
    /\ [](\A i \in Invocations :
            (inv[i].op = "start" /\ inv[i].result = "already")
            => /\ inv[i].did = {"read", "ping"}
               /\ inv[i].child = NoPid
               /\ record = Payload(inv[i].loaded))
    /\ [][ \A i \in Invocations :
             (inv[i].op = "start" /\ inv[i].pc = "loaded" /\ Running(i) /\ Moved(i))
             => /\ inv'[i].pc = "idle"
                /\ inv'[i].result = "already"
                /\ inv'[i].port = inv[i].port
                /\ UNCHANGED <<record, procs>> ]_vars

C20_Witness ==
    /\ inv[1].op = "start"
    /\ inv[1].pc = "idle"
    /\ inv[1].result = "already"
    /\ inv[1].loaded.pid > 1
    /\ record = Payload(inv[1].loaded)

\* C21: when _stop_daemon_if_running has returned after loading a record,
\* the record file is gone and a stop is reported, whether the process
\* exited after SIGTERM, was gone when signalled, or was sent SIGKILL.
C21_StopDeletesRecord ==
    \A i \in Invocations :
      (inv[i].op = "stop" /\ inv[i].pc = "idle" /\ inv[i].loaded # NoState)
      => /\ record = AbsentFile
         /\ inv[i].result = "stopped"
         /\ "unlink" \in inv[i].did

C21_Witness ==
    /\ inv[1].op = "stop"
    /\ inv[1].pc = "idle"
    /\ inv[1].loaded # NoState
    /\ "SIGKILL" \in inv[1].did
    /\ _is_process_alive(inv[1].loaded.pid)
    /\ record = AbsentFile

\* The signals invocation i has sent.
Signalled(i) == inv[i].did \cap {"SIGTERM", "SIGKILL"}

\* C22: SIGKILL is sent only after SIGTERM was sent and each of the
\* DeathPolls polls found the pid alive; a pid found dead at a poll, or gone
\* when SIGTERM was to be sent, is not sent SIGKILL.
C22_KillAfterPolls ==
    /\ [](\A i \in Invocations :
            inv[i].op = "stop"
            => /\ inv[i].tries <= DeathPolls
               /\ inv[i].pc = "sigkill"
                  => (inv[i].tries = DeathPolls /\ Signalled(i) = {"SIGTERM"})
               /\ "SIGKILL" \in inv[i].did => "SIGTERM" \in inv[i].did)
    /\ [][ \A i \in Invocations :
             (inv[i].op = "stop" /\ inv[i].pc # "idle" /\ Moved(i))
             => /\ Signalled(i)' # Signalled(i)
                   => \/ inv[i].pc = "sigterm" /\ Signalled(i)' = {"SIGTERM"}
                      \/ inv[i].pc = "sigkill" /\ Signalled(i)' = {"SIGTERM", "SIGKILL"}
                /\ inv[i].pc = "sigterm"
                   => inv'[i].pc = IF _is_process_alive(inv[i].loaded.pid)
                                   THEN "poll" ELSE "stop_clear"
                /\ inv[i].pc = "poll"
                   => IF ~_is_process_alive(inv[i].loaded.pid)
                      THEN inv'[i].pc = "stop_clear"
                      ELSE /\ inv'[i].tries = inv[i].tries + 1
                           /\ inv'[i].pc = IF inv'[i].tries = DeathPolls
                                           THEN "sigkill" ELSE "poll" ]_vars

C22_Witness ==
    /\ inv[1].op = "stop"
    /\ inv[1].pc = "sigkill"
    /\ inv[1].tries = DeathPolls

\* C23: when _stop_daemon_if_running has returned after loading a record,
\* the process the record named is not alive.
C23_StoppedBeforeDeleted ==
    \A i \in Invocations :
      (inv[i].op = "stop" /\ inv[i].pc = "idle" /\ inv[i].loaded # NoState)
      => ~_is_process_alive(inv[i].loaded.pid)

\* C24: _stop_daemon_if_running that loads nothing (no file, or a file that
\* load unlinks as unreadable or dead) ends at once as "not running": it
\* sends no signal, spawns nothing and writes nothing.
C24_StopAbsentNoop ==
    /\ [](\A i \in Invocations :
            (inv[i].op = "stop" /\ inv[i].pc \in {"loaded", "idle"}
                /\ inv[i].loaded = NoState)
            => /\ inv[i].did \subseteq {"read", "unlink"}
               /\ inv[i].pc = "idle" => inv[i].result = "not_running")
    /\ [][ \A i \in Invocations :
             (inv[i].op = "stop" /\ inv[i].pc = "loaded" /\ inv[i].loaded = NoState
                 /\ Moved(i))
             => /\ inv'[i].pc = "idle"
                /\ inv'[i].result = "not_running"
                /\ UNCHANGED <<record, procs>> ]_vars

C24_Witness ==
    /\ inv[1].op = "stop"
    /\ inv[1].pc = "idle"
    /\ inv[1].result = "not_running"
    /\ inv[1].seen # NoState
    /\ "unlink" \in inv[1].did

\* C25: daemon_status ends with one of four reports, sends no signal,
\* spawns nothing and writes no record; the only change it makes is to
\* unlink the record file, and never one that names a live pid.
C25_StatusReadOnly ==
    /\ [](\A i \in Invocations :
            inv[i].op = "status"
            => /\ inv[i].did \subseteq {"read", "ping", "unlink"}
               /\ inv[i].pc = "idle"
                  => inv[i].result \in {"not_running", "stale", "reachable",
                                        "not responding"}
               /\ (inv[i].pc = "idle" /\ inv[i].result = "stale")
                  => (record = AbsentFile /\ ~_is_process_alive(inv[i].loaded.pid)))
    /\ [][ \A i \in Invocations :
             (inv[i].op = "status" /\ inv[i].pc # "idle" /\ Moved(i))
             => /\ procs' = procs
                /\ record' # record
                   => /\ record' = AbsentFile
                      /\ record.kind = "record" => ~_is_process_alive(record.pid)
                /\ (inv[i].pc = "loaded" /\ inv[i].loaded # NoState
                       /\ _is_process_alive(inv[i].loaded.pid))
                   => /\ inv'[i].pc = "idle"
                      /\ inv'[i].result =
                           IF _ping_daemon(inv[i].loaded.host, inv[i].loaded.port)
                           THEN "reachable" ELSE "not responding" ]_vars

C25_Witness ==
    /\ inv[1].op = "status"
    /\ inv[1].pc = "idle"
    /\ inv[1].result = "stale"
    /\ inv[1].loaded # NoState
    /\ record = AbsentFile

\* ------------------------------------------------------------ termination
\* The next statement of the command invocation i runs.
Advance(i) ==
    \/ Load(i)
    \/ LoadUnlink(i)
    \/ ResolveProbe(i)
    \/ ResolveClear(i)
    \/ ResolveConnect(i)
    \/ ResolveClose(i)
    \/ StartCheck(i)
    \/ StartSpawn(i)
    \/ StartAwait(i)
    \/ StartTimeout(i)
    \/ StartSave(i)
    \/ StopCheck(i)
    \/ StopTerm(i)
    \/ StopPoll(i)
    \/ StopKill(i)
    \/ StopClear(i)
    \/ StatusReport(i)
    \/ StatusClear(i)

\* The supervisor where a CLI process that has a next statement gets to run
\* it; which commands are invoked and what the daemons do stays free.
SpecDaemonFair == SpecDaemon /\ \A i \in Invocations : WF_vars(Advance(i))

\* C26: the readiness loop makes at most `retries` probes and then fails
\* with the timeout, the death-poll loop makes at most DeathPolls polls and
\* then escalates, and every daemon_start and _stop_daemon_if_running
\* returns, whatever the processes do.
C26_LoopsTerminate ==
    /\ [](\A i \in Invocations :
            /\ inv[i].op = "start"
               => /\ inv[i].tries <= retries
                  /\ inv[i].pc = "await" => inv[i].tries < retries
                  /\ inv[i].pc = "timeout" => inv[i].tries = retries
            /\ inv[i].op = "stop"
               => /\ inv[i].tries <= DeathPolls
                  /\ inv[i].pc = "poll" => inv[i].tries < DeathPolls
                  /\ inv[i].pc = "sigkill" => inv[i].tries = DeathPolls)
    /\ \A i \in Invocations :
         (inv[i].op \in {"start", "stop"} /\ inv[i].pc # "idle") ~> (inv[i].pc = "idle")

C26_Witness ==
    /\ inv[1].op = "start"
    /\ inv[1].pc = "timeout"
    /\ inv[1].tries = retries
    /\ _is_process_alive(inv[1].child)

\* ------------------------------------------------- concurrent invocations
\* Two CLI processes on the one root, each to run one command. The earlier
\* daemon was given the first port: the ports are interchangeable.
InitRace ==
    /\ NoHelper
    /\ NoClient
    /\ \E q \in {1} :
         /\ \E a, b \in BOOLEAN :
              /\ b => a
              /\ procs = <<Process("daemon", IF a THEN q ELSE NoPort, a, b)>>
         /\ record \in {AbsentFile, CorruptFile,
                        Payload(DaemonState(1, DEFAULT_DAEMON_HOST, q))}
    /\ inv = [i \in Invocations |-> IdleInvocation]
    /\ active = Invocations

\* Invocation i has not run its command yet.
Fresh(i) == inv[i].op = "none"

\* One of them runs `daemon start`; the other runs `daemon start`, `daemon
\* stop` or a command that connects a client. Their statements interleave
\* freely: nothing locks daemon.json. No daemon exits of its own while the
\* two run.
NextRace ==
    \/ Fresh(1) /\ StartBegin(1)
    \/ Fresh(2) /\ StartBegin(2)
    \/ Fresh(2) /\ StopBegin(2)
    \/ Fresh(2) /\ ResolveBegin(2)
    \/ \E i \in Invocations :
         \/ Load(i)
         \/ LoadUnlink(i)
         \/ ResolveProbe(i)
         \/ ResolveClear(i)
         \/ ResolveConnect(i)
         \/ ResolveClose(i)
         \/ StartCheck(i)
         \/ StartSpawn(i)
         \/ StartAwait(i)
         \/ StartTimeout(i)
         \/ StartSave(i)
         \/ StopCheck(i)
         \/ StopTerm(i)
         \/ StopPoll(i)
         \/ StopKill(i)
         \/ StopClear(i)
    \/ \E p \in Pids : DaemonBind(p)

SpecRace == InitRace /\ [][NextRace]_vars

\* Invocation i ran daemon_start, found no record and wrote one.
StartedFromAbsent(i) ==
    /\ inv[i].op = "start"
    /\ inv[i].result = "started"
    /\ inv[i].loaded = NoState
    /\ inv[i].seen = NoState

\* C27: daemon_start writes its record over whatever daemon.json holds, so
\* of two concurrent starts that both found no record and both spawned a
\* daemon the later write is what is left, and the daemon of the earlier
\* one runs with no record naming it.
C27_LaterWriteWins ==
    /\ [][ \A i \in Invocations :
             WritesRecord(i)
             => record' = Payload(DaemonState(inv[i].child, DEFAULT_DAEMON_HOST,
                                              inv[i].port)) ]_vars
    /\ []((StartedFromAbsent(1) /\ StartedFromAbsent(2))
          => /\ inv[1].child # inv[2].child
             /\ record.pid \in {inv[1].child, inv[2].child})

C27_Witness ==
    /\ StartedFromAbsent(1)
    /\ StartedFromAbsent(2)
    /\ record.pid = inv[2].child
    /\ _is_process_alive(inv[2].child)
    /\ _is_process_alive(inv[1].child)
    /\ procs[inv[1].child].bound
    /\ procs[inv[1].child].port # record.port


\* ------------------------------------------------ the runners of the CLI
\* A client driven by one command runner of cli.py under _run.
InitRunners ==
    /\ NoHelper
    /\ runtime_cmd \in BOOLEAN
    /\ runtime_addr \in BOOLEAN
    /\ process = NoHandle
    /\ reader = NoHandle
    /\ writer = NoHandle
    /\ counter = 1
    /\ pc = Constructed(__init__(runtime_cmd, runtime_addr))
    /\ wire = <<>>
    /\ transport = [c \in Conns |-> "unopened"]
    /\ eof = {}
    /\ signals = 0
    /\ teardown = [c \in Conns |-> <<>>]
    /\ outcome = Ended("init", __init__(runtime_cmd, runtime_addr), 0, NoLine)
    /\ prevOp = "init"
    /\ runner \in Runners
    /\ exc = "none"
    /\ NoSupervisor

NextRunners ==
    \/ Connect
    \/ Call
    \/ Status
    \/ SendMessage
    \/ InvokeCapability
    \/ ReceiveLine
    \/ Interrupt
    \/ Close
    \/ CloseWait

SpecRunners == InitRunners /\ [][NextRunners]_vars

\* The three failures the propagation policy tells apart.
Failures == {"LaunchError", "ProtocolError", "ConnectionClosed"}

\* C28: a method raises ProtocolError only when the line it decoded is an
\* envelope with an `error` member, the connection-closed error only on end
\* of stream, and a launch error only from connect() on a pipe transport,
\* before any request; and when a runner has ended with one of the three,
\* what _run reports for it is what it reports for neither of the other two.
C28_FailuresDistinct ==
    /\ outcome.kind = "ProtocolError"
       => (outcome.line.shape = "object" /\ "error" \in outcome.line.has)
    /\ outcome.kind = "ConnectionClosed" => outcome.line.shape = "eof"
    /\ outcome.kind = "LaunchError"
       => (outcome.op = "connect" /\ ~runtime_addr /\ outcome.reqid = 0)
    /\ (runner = "done" /\ exc \in Failures)
       => \A k \in Failures \ {exc} : _run(k) \cap _run(exc) = {}

C28_Witness ==
    /\ runner = "done"
    /\ exc = "ProtocolError"
    /\ Len(wire) = 2
    /\ wire[2].method = "call"
    /\ wire[2].state = "error"
    /\ _run(exc) = {[title |-> "Protocol Error", code |-> 1]}

\* C29: inside a command runner, a request that call() ended on with a
\* protocol or connection-closed error is the last request the runner
\* writes.
C29_FailureEndsRunner ==
    \A i \in DOMAIN wire :
        (wire[i].method = "call" /\ wire[i].state \in {"error", "closed"})
        => i = Len(wire)

\* C30: a convenience wrapper ends as call() ends on the same response
\* line: with the same exception or the same returned value.
C30_WrappersAreCall ==
    (outcome.op \in {"status", "send_message", "invoke_capability"}
        /\ outcome.line # NoLine)
    => LET d == Decode(outcome.line)
       IN  /\ outcome.kind = d.kind
           /\ outcome.value = d.value
           /\ outcome.message = d.message
           /\ outcome.code = d.code
           /\ outcome.details = d.details


\* ------------------------------------------------ the transport variant
\* The client holds a socket connection: it was built with an address and
\* has a writer.
HoldsSocket == runtime_addr /\ writer # NoHandle

\* The client holds a subprocess.
HoldsProcess == process # NoHandle

\* C31: a client built with neither a command nor an address is rejected
\* and never used; a client never holds a subprocess and a socket
\* connection at once; what it was built with never changes, and every
\* transport connect() opens is a subprocess exactly when the client was
\* built without an address, over connect()/close() cycles too.
C31_OneTransportVariant ==
    /\ []((~runtime_cmd /\ ~runtime_addr)
          => (outcome = Ended("init", "ValueError", 0, NoLine) /\ pc = "none"
              /\ \A c \in Conns : transport[c] = "unopened"))
    /\ [](~(HoldsSocket /\ HoldsProcess))
    /\ [](HoldsProcess => (reader = process /\ writer = process))
    /\ [][ /\ runtime_cmd' = runtime_cmd
           /\ runtime_addr' = runtime_addr
           /\ \A c \in Conns :
                (transport[c] = "unopened" /\ transport'[c] = "open")
                => IF runtime_addr
                   THEN process' = NoHandle /\ writer' = c
                   ELSE process' = c /\ runtime_cmd ]_vars

C31_Witness ==
    /\ runtime_cmd
    /\ runtime_addr
    /\ transport[1] = "closed"
    /\ transport[2] = "open"
    /\ HoldsSocket
    /\ ~HoldsProcess


\* ------------------------------------------- a record that does not parse
\* One root whose daemon.json was not written by _save_daemon_state: it is
\* no JSON object, or its pid and port are not JSON integers.  One CLI
\* invocation runs one command on it.
InitLoad ==
    /\ NoHelper
    /\ NoClient
    /\ \E q \in Ports :
         /\ \E a, b \in BOOLEAN :
              /\ b => a
              /\ procs = <<Process("daemon", IF a THEN q ELSE NoPort, a, b)>>
         /\ record \in {CorruptFile}
                       \cup {Written(DaemonState(1, DEFAULT_DAEMON_HOST, q), f) :
                               f \in Forms \ {"int"}}
    /\ inv = [i \in Invocations |-> IdleInvocation]
    /\ active = {1}

NextLoad ==
    \/ \E i \in Invocations :
         \/ Fresh(i) /\ ResolveBegin(i)
         \/ Fresh(i) /\ StartBegin(i)
         \/ Fresh(i) /\ StopBegin(i)
         \/ Fresh(i) /\ StatusBegin(i)
         \/ Load(i)
         \/ LoadUnlink(i)
         \/ ResolveProbe(i)
         \/ ResolveClear(i)
         \/ ResolveConnect(i)
         \/ ResolveClose(i)
         \/ StartCheck(i)
         \/ StartSpawn(i)
         \/ StartAwait(i)
         \/ StartTimeout(i)
         \/ StartSave(i)
         \/ StopCheck(i)
         \/ StopTerm(i)
         \/ StopPoll(i)
         \/ StopKill(i)
         \/ StopClear(i)
         \/ StatusReport(i)
         \/ StatusClear(i)
    \/ \E p \in Pids :
         \/ DaemonBind(p)
         \/ ProcessExit(p)

SpecLoad == InitLoad /\ [][NextLoad]_vars

\* Invocation i reads and judges the record file.
Loads(i) == inv[i].pc = "load" /\ inv'[i].pc # "load"

\* The file is no JSON object, or int() raises on its pid or port.
Unparseable(file) == file.kind = "corrupt" \/ (file.kind = "record" /\ int(file.form) # "int")

\* Invocation i unlinked a file that did not parse, and so loaded nothing.
UnlinkedUnparseable(i) ==
    /\ inv[i].loaded = NoState
    /\ inv[i].seen = NoState
    /\ "unlink" \in inv[i].did

\* What a command ends with when it found no daemon.
AbsentResult(me) ==
    CASE me.op = "start" -> me.result \in {"started", "failed", "OSError"}
      [] me.op = "stop" -> me.result = "not_running"
      [] me.op = "status" -> me.result = "not_running"
      [] me.op = "resolve" -> me.transport = "pipe" /\ me.result = "closed"
      [] OTHER -> FALSE

\* C32 as stated: a file that is no JSON object, or whose pid or port is
\* not an integer, is unlinked by the load.
C32_NonIntegerDeleted ==
    [][ \A i \in Invocations :
          (Loads(i) /\ (record.kind = "corrupt"
                        \/ (record.kind = "record" /\ record.form # "int")))
          => inv'[i].pc = "load_unlink" ]_vars

\* C32, amended: a file that is no JSON object, or on whose pid or port
\* int() raises, is unlinked by the load, nothing is loaded, and start,
\* stop, status and resolve_transport go on as they do without a daemon,
\* none of them failing on the file; a pid or port that int() converts (a
\* float, a string of digits) is taken as the integer it converts to.
C32_UnparseableTreatedAbsent ==
    /\ [][ \A i \in Invocations :
             /\ (Loads(i) /\ Unparseable(record))
                => (inv'[i].pc = "load_unlink" /\ inv'[i].loaded = NoState)
             /\ (Loads(i) /\ record.kind = "record" /\ ~Unparseable(record)
                   /\ _is_process_alive(record.pid))
                => inv'[i].loaded = DaemonState(record.pid, record.host, record.port)
             /\ (inv[i].pc = "load_unlink" /\ inv'[i].pc # "load_unlink")
                => (record' = AbsentFile /\ inv'[i].pc = "loaded"
                    /\ inv'[i].loaded = NoState) ]_vars
    /\ [](\A i \in Invocations :
            (inv[i].pc = "idle" /\ UnlinkedUnparseable(i)) => AbsentResult(inv[i]))

C32_Witness ==
    /\ inv[1].op = "stop"
    /\ inv[1].pc = "idle"
    /\ UnlinkedUnparseable(1)
    /\ inv[1].result = "not_running"
    /\ record = AbsentFile
    /\ procs[1].alive
    /\ procs[1].bound


\* ------------------------------------------------- helpers of the CLI
\* How many directories there are above the client's own file.
MaxParents == 2
\* How many tokens a message text has at most.
MaxText == 4

\* Optional[...]: None, or a value.  A string is the sequence of its parts,
\* "" the empty one.
None == [none |-> TRUE, value |-> <<>>]
Some(v) == [none |-> FALSE, value |-> v]

\* Python's truth of an optional path or string: None and "" are false.
Truthy(v) == ~v.none /\ v.value # <<>>

\* `a or b`.
Or(a, b) == IF Truthy(a) THEN a ELSE b

\* A file path: a name, below the parent directory `dir` of the client's
\* file when dir > 0.
PathAt(dir, name) == [dir |-> dir, name |-> name]

\* The walk up the parents (cli.py 2085-2091), from the parent `k` on: the
\* first candidate that exists, target/debug before target/release.
RECURSIVE Candidates(_, _, _)
Candidates(exists, exe_name, k) ==
    IF k > MaxParents THEN None
    ELSE IF exists[k].debug THEN Some(PathAt(k, <<"target", "debug", exe_name>>))
    ELSE IF exists[k].release THEN Some(PathAt(k, <<"target", "release", exe_name>>))
    ELSE Candidates(exists, exe_name, k + 1)

\* A faulty discovery that asks the environment before the caller.
_codebased_commandEnvFirst(codebased_bin, environ, exists, os_name) ==
    LET env_override == Or(environ.CODEBASED_BIN, environ.DUETD_BIN)
        exe_name == IF os_name = "nt" THEN "codebased.exe" ELSE "codebased"
        found == Candidates(exists, exe_name, 1)
    IN  IF Truthy(env_override) THEN <<PathAt(0, env_override.value), "--stdio">>
        ELSE IF ~codebased_bin.none THEN <<PathAt(0, codebased_bin.value), "--stdio">>
        ELSE IF ~found.none THEN <<found.value, "--stdio">>
        ELSE <<PathAt(0, <<exe_name>>), "--stdio">>

\* _codebased_command (cli.py 2077-2092) given state.codebased_bin, the
\* environment, which candidates exist and os.name.  A Path is true
\* whatever it holds.
_codebased_command(codebased_bin, environ, exists, os_name) ==
    LET env_override == Or(environ.CODEBASED_BIN, environ.DUETD_BIN)
        exe_name == IF os_name = "nt" THEN "codebased.exe" ELSE "codebased"
        found == Candidates(exists, exe_name, 1)
    IN  IF ~codebased_bin.none THEN <<PathAt(0, codebased_bin.value), "--stdio">>
        ELSE IF Truthy(env_override) THEN <<PathAt(0, env_override.value), "--stdio">>
        ELSE IF ~found.none THEN <<found.value, "--stdio">>
        ELSE <<PathAt(0, <<exe_name>>), "--stdio">>

\* What an environment variable holds: nothing, the empty string, a path.
EnvValues(path) == {None, Some(<<>>), Some(path)}

\* A message text, token by token: the markers "User:", "Assistant:" and
\* "System:" (in any case), a word, a blank, a line break.
Tokens == {"User:", "Assistant:", "System:", "word", " ", "\n"}
Whitespace == {" ", "\n"}

RECURSIVE Texts(_)
Texts(n) ==
    IF n = 0 THEN {<<>>}
    ELSE LET shorter == Texts(n - 1)
         IN  shorter \cup {Append(t, c) : t \in {u \in shorter : Len(u) = n - 1}, c \in Tokens}

\* \s* from position j on: the position of the first token that is no
\* whitespace, or the end.
RECURSIVE SkipWhitespace(_, _)
SkipWhitespace(text, j) ==
    IF j <= Len(text) /\ text[j] \in Whitespace THEN SkipWhitespace(text, j + 1) ELSE j

\* The lookahead (?=(?:\n\s*(?:a|b):|\Z)) at position e.
Lookahead(text, e, stops) ==
    \/ e = Len(text) + 1
    \/ /\ e <= Len(text)
       /\ text[e] = "\n"
       /\ LET k == SkipWhitespace(text, e + 1)
          IN  k <= Len(text) /\ text[k] \in stops

\* (.*?) from position j on: the first position at which the lookahead
\* holds.
RECURSIVE Lazy(_, _, _)
Lazy(text, j, stops) ==
    IF Lookahead(text, j, stops) THEN j ELSE Lazy(text, j + 1, stops)

\* RE.findall(text) from position `from` on, for the pattern
\* marker\s*(.*?)(?=(?:\n\s*(?:stops):|\Z)) (cli.py 60-61): the groups of
\* the matches, left to right, each search starting where the last match
\* ended.
RECURSIVE findall(_, _, _, _)
findall(text, from, marker, stops) ==
    IF \A i \in from .. Len(text) : text[i] # marker THEN <<>>
    ELSE LET i == CHOOSE i \in from .. Len(text) :
                    text[i] = marker /\ \A h \in from .. (i - 1) : text[h] # marker
             j == SkipWhitespace(text, i + 1)
             e == Lazy(text, j, stops)
         IN  <<SubSeq(text, j, e - 1)>> \o findall(text, e, marker, stops)

\* str.strip().
RECURSIVE strip(_)
strip(text) ==
    IF text = <<>> THEN text
    ELSE IF Head(text) \in Whitespace THEN strip(Tail(text))
    ELSE IF text[Len(text)] \in Whitespace THEN strip(SubSeq(text, 1, Len(text) - 1))
    ELSE text

\* re.sub(r"\s+", " ", text).
RECURSIVE collapse(_)
collapse(text) ==
    IF text = <<>> THEN text
    ELSE IF Head(text) \in Whitespace
    THEN <<" ">> \o collapse(SubSeq(text, SkipWhitespace(text, 1), Len(text)))
    ELSE <<Head(text)>> \o collapse(Tail(text))

\* _clean_user_message / _clean_assistant_message (cli.py 1913-1936), by
\* the marker and the stops of the pattern each uses.
_clean(text, marker, stops) ==
    IF text.none \/ text.value = <<>> THEN None
    ELSE LET match == findall(text.value, 1, marker, stops)
             cleaned == collapse(strip(IF match # <<>> THEN match[Len(match)]
                                       ELSE text.value))
         IN  IF cleaned = <<>> THEN None ELSE Some(cleaned)

_clean_user_message(text) == _clean(text, "User:", {"Assistant:", "System:"})
_clean_assistant_message(text) == _clean(text, "Assistant:", {"User:", "System:"})

\* One helper is applied once to arguments of its domain.
InitHelpers ==
    /\ NoClient
    /\ NoSupervisor
    /\ NoHelper

CodebasedCommand ==
    /\ args = NoCall
    /\ \E codebased_bin \in {None, Some(<<"opt", "explicit">>)},
          primary \in EnvValues(<<"env", "primary">>), legacy \in EnvValues(<<"env", "legacy">>),
          exists \in [1 .. MaxParents -> [debug : BOOLEAN, release : BOOLEAN]],
          os_name \in {"posix", "nt"} :
         /\ args' = [fn |-> "_codebased_command", codebased_bin |-> codebased_bin,
                     environ |-> [CODEBASED_BIN |-> primary, DUETD_BIN |-> legacy],
                     exists |-> exists, os_name |-> os_name]
         /\ ret' = _codebased_command(codebased_bin,
                                      [CODEBASED_BIN |-> primary, DUETD_BIN |-> legacy],
                                      exists, os_name)
    /\ UNCHANGED <<cvars, dvars, root, loop>>

CleanUserMessage ==
    /\ args = NoCall
    /\ \E text \in {None} \cup {Some(t) : t \in Texts(MaxText)} :
         /\ args' = [fn |-> "_clean_user_message", text |-> text]
         /\ ret' = _clean_user_message(text)
    /\ UNCHANGED <<cvars, dvars, root, loop>>

CleanAssistantMessage ==
    /\ args = NoCall
    /\ \E text \in {None} \cup {Some(t) : t \in Texts(MaxText)} :
         /\ args' = [fn |-> "_clean_assistant_message", text |-> text]
         /\ ret' = _clean_assistant_message(text)
    /\ UNCHANGED <<cvars, dvars, root, loop>>

NextHelpers ==
    \/ CodebasedCommand
    \/ CleanUserMessage
    \/ CleanAssistantMessage

SpecHelpers == InitHelpers /\ [][NextHelpers]_vars

\* An environment variable supplies a path: it is set and not empty.
Supplies(v) == ~v.none /\ v.value # <<>>

\* C33: the executable is the caller's path when one was given; else what
\* the primary variable supplies; else what the legacy variable supplies;
\* else the candidate that exists in the nearest parent that has one, its
\* debug build before its release build; else the bare name; and the
\* command always ends with --stdio.
C33_DiscoveryPriority ==
    args.fn = "_codebased_command"
    => LET exe == IF args.os_name = "nt" THEN "codebased.exe" ELSE "codebased"
           has(k) == args.exists[k].debug \/ args.exists[k].release
           levels == {k \in 1 .. MaxParents : has(k)}
       IN  /\ Len(ret) = 2
           /\ ret[2] = "--stdio"
           /\ ret[1] =
                IF ~args.codebased_bin.none THEN PathAt(0, args.codebased_bin.value)
                ELSE IF Supplies(args.environ.CODEBASED_BIN)
                THEN PathAt(0, args.environ.CODEBASED_BIN.value)
                ELSE IF Supplies(args.environ.DUETD_BIN)
                THEN PathAt(0, args.environ.DUETD_BIN.value)
                ELSE IF levels # {}
                THEN LET k == CHOOSE k \in levels : \A h \in levels : k <= h
                     IN  PathAt(k, <<"target",
                                     IF args.exists[k].debug THEN "debug" ELSE "release",
                                     exe>>)
                ELSE PathAt(0, <<exe>>)

C33_Witness ==
    /\ args.fn = "_codebased_command"
    /\ args.codebased_bin.none
    /\ args.environ.CODEBASED_BIN = Some(<<>>)
    /\ args.environ.DUETD_BIN.none
    /\ ~args.exists[1].debug
    /\ ~args.exists[1].release
    /\ args.exists[2].debug
    /\ args.exists[2].release
    /\ ret = <<PathAt(2, <<"target", "debug", "codebased">>), "--stdio">>

\* The last position of the marker in the text, or 0.
LastOf(text, marker) ==
    IF \A i \in DOMAIN text : text[i] # marker THEN 0
    ELSE CHOOSE i \in DOMAIN text : text[i] = marker /\ \A h \in (i + 1) .. Len(text) : text[h] # marker

\* The segment the last marker opens: what follows it, up to the next line
\* that starts another speaker's segment, or to the end.
LastSegment(text, marker, others) ==
    LET i == LastOf(text, marker)
        ends == {e \in (i + 1) .. Len(text) :
                   /\ text[e] = "\n"
                   /\ \E k \in (e + 1) .. Len(text) :
                        /\ text[k] \in others
                        /\ \A h \in (e + 1) .. (k - 1) : text[h] \in Whitespace}
        e == IF ends = {} THEN Len(text) + 1
             ELSE CHOOSE e \in ends : \A h \in ends : e <= h
    IN  SubSeq(text, i + 1, e - 1)

\* A text with surrounding whitespace stripped and every whitespace run
\* collapsed to one blank.
Tidy(text) ==
    LET kept == {i \in DOMAIN text :
                   \/ text[i] \notin Whitespace
                   \/ /\ i > 1
                      /\ text[i - 1] \notin Whitespace
                      /\ \E h \in (i + 1) .. Len(text) : text[h] \notin Whitespace}
        nth(n) == CHOOSE i \in kept : Cardinality({h \in kept : h < i}) = n - 1
    IN  [n \in 1 .. Cardinality(kept) |->
           IF text[nth(n)] \in Whitespace THEN " " ELSE text[nth(n)]]

\* What the claim gives for a text, a marker and the other speakers.
Latest(text, marker, others) ==
    IF text.none THEN None
    ELSE LET cleaned == IF LastOf(text.value, marker) = 0 THEN Tidy(text.value)
                        ELSE Tidy(LastSegment(text.value, marker, others))
         IN  IF cleaned = <<>> THEN None ELSE Some(cleaned)

\* C34: _clean_user_message (resp. _clean_assistant_message) returns the
\* tidied content of the last "User:" (resp. "Assistant:") segment of the
\* text, the whole tidied text when there is no marker, and None when the
\* text is missing or tidies to nothing.
C34_LatestSegment ==
    /\ args.fn = "_clean_user_message"
       => ret = Latest(args.text, "User:", {"Assistant:", "System:"})
    /\ args.fn = "_clean_assistant_message"
       => ret = Latest(args.text, "Assistant:", {"User:", "System:"})


\* ------------------------------------------- live daemons and the record
\* No command is under way on the root.
Quiet == \A i \in Invocations : inv[i].pc = "idle"

\* The record names process p.
Names(file, p) == file.kind = "record" /\ int(file.form) = "int" /\ file.pid = p

\* C35: between commands run one at a time, every daemon that a start()
\* spawned and that is alive is the one the record names; and a step that
\* removes or replaces the record of a live daemon is taken by a command
\* that has signalled a process.
C35_LiveDaemonRecorded ==
    /\ [](Quiet => \A p \in 2 .. Len(procs) :
                     (procs[p].kind = "daemon" /\ procs[p].alive) => Names(record, p))
    /\ [][ \A p \in DOMAIN procs :
             (procs[p].alive /\ Names(record, p) /\ record' # record)
             => \E i \in Invocations : Moved(i) /\ Signalled(i)' # {} ]_vars

\* ----------------------------------------- deleting the judged record
\* The record a command went by: the one it loaded, or the one it found
\* stale while loading.
Judged(me) == IF me.loaded # NoState THEN me.loaded ELSE me.seen

\* C36: when resolve_transport or stop() deletes the record while a start()
\* runs on the same root, the file it deletes is the one it loaded and
\* judged, not one written since.
C36_DeletesWhatItJudged ==
    [][ \A i \in Invocations :
          (/\ inv[i].op \in {"resolve", "stop"}
           /\ Moved(i)
           /\ record # AbsentFile
           /\ record' = AbsentFile)
          => IF Judged(inv[i]) = NoState
             THEN record.kind = "corrupt"
             ELSE record = Payload(Judged(inv[i])) ]_vars

\* ------------------------------------------- requests on no connection
\* A client used freely: connect(), call(), the three wrappers and close()
\* in any order, by no command runner.
InitCalls ==
    /\ Init
    /\ runner = "off"

NextCalls ==
    \/ Connect
    \/ Call
    \/ Status
    \/ SendMessage
    \/ InvokeCapability
    \/ ReceiveLine
    \/ Close
    \/ CloseWait

SpecCalls == InitCalls /\ [][NextCalls]_vars

\* The methods that send one request of the caller's.
Methods == {"call", "status", "send_message", "invoke_capability"}

\* One of them is entered on the client in this step.
Entered ==
    /\ pc = "idle"
    /\ \/ outcome' # outcome /\ outcome'.op \in Methods
       \/ Len(wire') > Len(wire) /\ wire'[Len(wire')].method \in Methods

\* C37: call() or a wrapper on a client with no reader or no writer (never
\* connected, the launch failed, or closed) raises the not-connected error,
\* writes nothing and takes no id; so the ids of the requests written stay
\* consecutive.
C37_RefusedTakesNoId ==
    /\ [][ (Entered /\ (writer = NoHandle \/ reader = NoHandle))
           => /\ outcome'.kind = "NotConnected"
              /\ outcome'.reqid = 0
              /\ wire' = wire
              /\ counter' = counter
              /\ pc' = "idle" ]_vars
    /\ [](\A i \in DOMAIN wire : i > 1 => wire[i].id = wire[i - 1].id + 1)
    /\ [](counter = Len(wire) + 1)

C37_Witness ==
    /\ Len(wire) = 2
    /\ \A i \in DOMAIN wire : wire[i].method = "connect" /\ wire[i].id = i
    /\ wire[2].conn = 2
    /\ transport[1] = "closed"
    /\ prevOp = "status"
    /\ outcome.op = "connect"
    /\ outcome.kind = "return"

\* ------------------------------------------------------------ `clear`
\* `duet clear [--force]` is invoked (cli.py 993-1006): without --force it
\* asks first.
ClearBegin(i) ==
    /\ i \in active
    /\ inv[i].pc = "idle"
    /\ \E force \in BOOLEAN :
         Goto(i, [IdleInvocation EXCEPT !.op = "clear", !.force = force,
                                        !.pc = IF force THEN "load" ELSE "confirm"])
    /\ UNCHANGED <<cvars, hvars, record, procs, active>>

\* A faulty clear that goes on whatever is answered.
ClearConfirmAnyway(i) ==
    /\ At(i, "clear", "confirm")
    /\ \E proceed \in {"yes", "no", "Abort"} :
         Goto(i, [inv[i] EXCEPT !.pc = "load", !.did = @ \cup {proceed}])
    /\ UNCHANGED <<cvars, hvars, record, procs, active>>

\* typer.confirm(..., default=False) (cli.py 1017-1023): yes goes on; no, or
\* an empty answer, returns; an aborted prompt exits with code 1.
ClearConfirm(i) ==
    /\ At(i, "clear", "confirm")
    /\ \E proceed \in {"yes", "no", "Abort"} :
         CASE proceed = "yes" ->
                Goto(i, [inv[i] EXCEPT !.pc = "load", !.did = @ \cup {proceed}])
           [] proceed = "no" ->
                Goto(i, [inv[i] EXCEPT !.pc = "idle", !.result = "left intact",
                                       !.did = @ \cup {proceed}])
           [] OTHER ->
                Goto(i, [inv[i] EXCEPT !.pc = "idle", !.result = "Exit(1)",
                                       !.did = @ \cup {proceed}])
    /\ UNCHANGED <<cvars, hvars, record, procs, active>>

\* shutil.rmtree(root) once _stop_daemon_if_running has returned (cli.py
\* 1025-1046): a root that is not there is left alone; a removal that
\* raises exits with code 1, having removed some of the files or none.
ClearRemove(i) ==
    /\ At(i, "clear", "rmtree")
    /\ IF root
       THEN \/ /\ root' = FALSE
               /\ record' = AbsentFile
               /\ Goto(i, [inv[i] EXCEPT !.pc = "idle", !.result = "cleared",
                                         !.did = @ \cup {"rmtree"}])
            \/ /\ root' = root
               /\ record' \in {record, AbsentFile}
               /\ Goto(i, [inv[i] EXCEPT !.pc = "idle", !.result = "Exit(1)",
                                         !.did = @ \cup {"rmtree"}])
       ELSE /\ Goto(i, [inv[i] EXCEPT !.pc = "idle", !.result = "nothing"])
            /\ UNCHANGED <<root, record>>
    /\ UNCHANGED <<cvars, args, ret, loop, procs, active>>

\* One root, there or not, with what an earlier daemon left in it; `clear`
\* is run on it, one invocation at a time.
InitClear ==
    /\ args = NoCall
    /\ ret = NoCall
    /\ loop = NoCall
    /\ NoClient
    /\ root \in BOOLEAN
    /\ \E q \in Ports :
         /\ \E a, b \in BOOLEAN :
              /\ b => a
              /\ procs = <<Process("daemon", IF a THEN q ELSE NoPort, a, b)>>
         /\ record \in IF root
                       THEN {AbsentFile, CorruptFile,
                             Payload(DaemonState(1, DEFAULT_DAEMON_HOST, q))}
                       ELSE {AbsentFile}
    /\ inv = [i \in Invocations |-> IdleInvocation]
    /\ active = {1}

NextClear ==
    \/ \E i \in Invocations :
         \/ ClearBegin(i)
         \/ ClearConfirm(i)
         \/ Load(i)
         \/ LoadUnlink(i)
         \/ StopCheck(i)
         \/ StopTerm(i)
         \/ StopPoll(i)
         \/ StopKill(i)
         \/ StopClear(i)
         \/ ClearRemove(i)
    \/ \E p \in Pids :
         \/ DaemonBind(p)
         \/ ProcessExit(p)

SpecClear == InitClear /\ [][NextClear]_vars

\* What a clear can do to the daemon and to the files.
Effects == {"SIGTERM", "SIGKILL", "unlink", "rmtree"}

\* C38: a clear without --force that was not answered yes has sent no
\* signal and removed nothing, and the step that declines changes neither
\* the processes, nor the record, nor the root; the root is removed only
\* once _stop_daemon_if_running has returned, that is after the signals,
\* the death polls and the removal of the record of a daemon it loaded.
C38_ClearAsksFirst ==
    /\ [](\A i \in Invocations :
            (inv[i].op = "clear" /\ ~inv[i].force /\ "yes" \notin inv[i].did)
            => /\ inv[i].did \cap Effects = {}
               /\ "read" \notin inv[i].did
               /\ inv[i].pc \in {"confirm", "idle"})
    /\ [][ \A i \in Invocations :
             /\ (inv[i].op = "clear" /\ inv[i].pc = "confirm" /\ inv'[i].pc = "idle")
                => (record' = record /\ root' = root /\ procs' = procs)
             /\ (inv[i].op = "clear" /\ ("rmtree" \in inv'[i].did \/ root' # root)
                   /\ inv[i].pc # "idle")
                => /\ inv[i].pc = "rmtree"
                   /\ inv[i].result \in {"stopped", "not_running"}
                   /\ inv[i].tries = 0
                   /\ inv[i].result = "stopped"
                      => ("unlink" \in inv[i].did /\ record = AbsentFile)
                   /\ ("SIGKILL" \in inv[i].did) => ("SIGTERM" \in inv[i].did) ]_vars

C38_Witness ==
    /\ inv[1].op = "clear"
    /\ ~inv[1].force
    /\ inv[1].pc = "idle"
    /\ inv[1].result = "cleared"
    /\ {"yes", "SIGTERM", "SIGKILL", "unlink", "rmtree"} \subseteq inv[1].did
    /\ ~root
    /\ record = AbsentFile

\* ------------------------------------------------------ the tail loops
\* How many requests a tail loop sends at most here.
MaxPolls == 3

\* The `since` the tail commands pass on (cli.py 1088-1089, 3497-3502):
\* dataspace-tail its --since option when given, transcript-tail none.
Since(fn) == IF fn = "_run_dataspace_tail" THEN {None, Some(<<"t0">>)} ELSE {None}

\* What call() gives the loop: an exception, a result that is no object, or
\* an object whose next_cursor is missing or null, "", or an identifier,
\* and whose events are there or not.
TailRaised == [kind |-> "raise", next_cursor |-> None, events |-> FALSE]
TailOther == [kind |-> "other", next_cursor |-> None, events |-> FALSE]
TailResults ==
    {TailRaised, TailOther}
      \cup [kind : {"dict"}, next_cursor : {None, Some(<<>>), Some(<<"t1">>), Some(<<"t2">>)},
            events : BOOLEAN]

\* The command is run (cli.py 1954-1957, 1983-1987): cursor is the `since`
\* popped from the parameters.
TailBegin ==
    /\ loop = NoCall
    /\ \E fn \in {"_run_dataspace_tail", "_run_transcript_tail"}, follow \in BOOLEAN :
         \E since \in Since(fn) :
           loop' = [fn |-> fn, follow |-> follow, since |-> since, cursor |-> since,
                    pc |-> "query", sent |-> <<>>, got |-> <<>>]
    /\ UNCHANGED <<cvars, dvars, args, ret, root>>

\* The head of the loop up to the call (cli.py 1960-1964, 1989-1996): the
\* query gets a `since` when cursor is true.
TailQuery ==
    /\ loop # NoCall
    /\ loop.pc = "query"
    /\ Len(loop.sent) < MaxPolls
    /\ loop' = [loop EXCEPT !.pc = "call",
                            !.sent = Append(@, IF Truthy(loop.cursor) THEN loop.cursor
                                               ELSE None)]
    /\ UNCHANGED <<cvars, dvars, args, ret, root>>

\* A faulty loop that takes next_cursor as it comes.
TailResultDrops ==
    /\ loop # NoCall
    /\ loop.pc = "call"
    /\ \E result \in TailResults :
         LET got == [loop EXCEPT !.got = Append(@, result)]
         IN  IF result.kind # "dict"
             THEN loop' = [got EXCEPT !.pc = "done"]
             ELSE IF ~loop.follow
                  THEN loop' = [got EXCEPT !.pc = "done"]
                  ELSE loop' = [got EXCEPT !.pc = "query", !.cursor = result.next_cursor]
    /\ UNCHANGED <<cvars, dvars, args, ret, root>>

\* The rest of the loop (cli.py 1964-1978, 1996-2009): an exception or a
\* result that is no object ends it; else `next_cursor or cursor` is the
\* cursor from now on, which _run_transcript_tail assigns before and
\* _run_dataspace_tail after the test of follow; without follow the loop
\* ends.
TailResult ==
    /\ loop # NoCall
    /\ loop.pc = "call"
    /\ \E result \in TailResults :
         LET got == [loop EXCEPT !.got = Append(@, result)]
             next_cursor == Or(result.next_cursor, loop.cursor)
         IN  IF result.kind # "dict"
             THEN loop' = [got EXCEPT !.pc = "done"]
             ELSE IF ~loop.follow
                  THEN loop' = [got EXCEPT !.pc = "done",
                                           !.cursor = IF loop.fn = "_run_transcript_tail"
                                                      THEN next_cursor ELSE @]
                  ELSE loop' = [got EXCEPT !.pc = "query", !.cursor = next_cursor]
    /\ UNCHANGED <<cvars, dvars, args, ret, root>>

InitTail == NoClient /\ NoSupervisor /\ NoHelper

NextTail ==
    \/ TailBegin
    \/ TailQuery
    \/ TailResult

SpecTail == InitTail /\ [][NextTail]_vars

\* The last next_cursor that was not empty among the first n results, or
\* the cursor the loop was started with.
RECURSIVE LatestCursor(_, _, _)
LatestCursor(got, n, since) ==
    IF n = 0 THEN since
    ELSE IF got[n].kind = "dict" /\ Truthy(got[n].next_cursor) THEN got[n].next_cursor
    ELSE LatestCursor(got, n - 1, since)

\* C39: every request of a tail loop after the first carries as `since` the
\* last next_cursor returned that was not empty, the first one and the ones
\* before any such result the `since` the loop was started with; and a loop
\* without follow sends one request.
C39_CursorKept ==
    loop # NoCall
    => /\ \A k \in DOMAIN loop.sent :
            loop.sent[k] = LatestCursor(loop.got, k - 1, loop.since)
       /\ ~loop.follow => Len(loop.sent) <= 1
       /\ (~loop.follow /\ loop.pc \in {"call", "done"}) => Len(loop.sent) = 1
       /\ loop.pc = "done" => loop.got[Len(loop.got)].kind # "dict" \/ ~loop.follow

C39_Witness ==
    /\ loop # NoCall
    /\ loop.fn = "_run_dataspace_tail"
    /\ loop.follow
    /\ loop.since = Some(<<"t0">>)
    /\ Len(loop.sent) = 3
    /\ loop.got[1].next_cursor = Some(<<"t1">>)
    /\ loop.got[2].kind = "dict"
    /\ loop.got[2].next_cursor = Some(<<>>)
    /\ ~loop.got[2].events
    /\ loop.sent = <<Some(<<"t0">>), Some(<<"t1">>), Some(<<"t1">>)>>

\* ------------------------------------------- the interactive workflow
\* What the user types at the prompt: nothing (end of input or Ctrl-C), or
\* a line, token by token.
Inputs ==
    {None, Some(<<>>), Some(<<" ">>), Some(<<":q">>), Some(<<":Q">>), Some(<<"ok">>),
     Some(<<" ", "ok", " ">>), Some(<<"ok", " ", ":q">>)}

\* str.lower() on the tokens of a line.
lower(text) == [n \in DOMAIN text |-> IF text[n] = ":Q" THEN ":q" ELSE text[n]]

\* A faulty prompt that returns the line as typed.
_prompt_for_inputRaw(raw) == raw

\* _prompt_for_input from the line read on (cli.py 1273-1284): no line, a
\* blank line and a quit word give None, else the stripped line.
_prompt_for_input(raw) ==
    IF raw.none THEN None
    ELSE LET response == strip(raw.value)
         IN  IF response = <<>> THEN None
             ELSE IF lower(response) \in {<<":q">>, <<":quit">>, <<":exit">>} THEN None
             ELSE Some(response)

\* What call("workflow_follow") gives the loop: an exception, a result that
\* is no object, or an object with the instance's state, the wait it names
\* (its type and request_id) and the request_ids of the pending prompts.
NoFollow ==
    [kind |-> "none", state |-> "none", wait_type |-> "none", wait_id |-> None,
     prompts |-> <<>>]

FollowResults ==
    {[NoFollow EXCEPT !.kind = "raise"], [NoFollow EXCEPT !.kind = "other"]}
      \cup [kind : {"dict"},
            state : {"completed", "failed", "waiting", "running", "none"},
            wait_type : {"user-input", "timer", "none"},
            wait_id : {None, Some(<<"w1">>)},
            prompts : {<<>>, <<None>>, <<Some(<<>>)>>, <<Some(<<"p1">>)>>,
                       <<Some(<<"p2">>), Some(<<"p1">>)>>}]

\* prompts[0] if prompts else wait_info (cli.py 1208), by its request_id.
PromptEntry(result) ==
    IF result.prompts # <<>> THEN result.prompts[1] ELSE result.wait_id

Envelope(command, request_id, response) ==
    [command |-> command, request_id |-> request_id, response |-> response]

\* _workflow_interactive_loop is entered (cli.py 1182-1189).
LoopBegin ==
    /\ loop = NoCall
    /\ loop' = [fn |-> "_workflow_interactive_loop", pc |-> "follow", sent |-> <<>>,
                got |-> NoFollow]
    /\ UNCHANGED <<cvars, dvars, args, ret, root>>

\* client.call("workflow_follow", ...) is sent (cli.py 1190).
LoopFollow ==
    /\ loop # NoCall
    /\ loop.pc = "follow"
    /\ Len(loop.sent) < MaxPolls
    /\ loop' = [loop EXCEPT !.pc = "call_follow",
                            !.sent = Append(@, Envelope("workflow_follow", None, None))]
    /\ UNCHANGED <<cvars, dvars, args, ret, root>>

\* What the loop does with its result (cli.py 1190-1207, 1234): an
\* exception, a result that is no object and the states completed and
\* failed end it; waiting on user-input leads to the prompt; else it sleeps
\* and follows again.
LoopFollowResult ==
    /\ loop # NoCall
    /\ loop.pc = "call_follow"
    /\ \E result \in FollowResults :
         loop' = [loop EXCEPT
                    !.got = result,
                    !.pc = IF result.kind # "dict" THEN "done"
                           ELSE IF result.state \in {"completed", "failed"} THEN "done"
                           ELSE IF result.state = "waiting" /\ result.wait_type = "user-input"
                           THEN "prompt"
                           ELSE "follow"]
    /\ UNCHANGED <<cvars, dvars, args, ret, root>>

\* The prompt and the submission (cli.py 1208-1229): no response, or a
\* prompt without request_id, ends the loop; else workflow_input is sent
\* with the prompt's request_id and the response.
LoopPrompt ==
    /\ loop # NoCall
    /\ loop.pc = "prompt"
    /\ \E raw \in Inputs :
         LET response == _prompt_for_input(raw)
             request_id == PromptEntry(loop.got)
         IN  IF response.none \/ ~Truthy(request_id)
             THEN loop' = [loop EXCEPT !.pc = "done"]
             ELSE /\ Len(loop.sent) < MaxPolls
                  /\ loop' = [loop EXCEPT
                                !.pc = "call_input",
                                !.sent = Append(@, Envelope("workflow_input", request_id,
                                                            response))]
    /\ UNCHANGED <<cvars, dvars, args, ret, root>>

\* The submission returns, and the loop follows again, or raises (cli.py
\* 1220-1231).
LoopInputResult ==
    /\ loop # NoCall
    /\ loop.pc = "call_input"
    /\ \E kind \in {"input", "raise"} :
         loop' = [loop EXCEPT !.got = [NoFollow EXCEPT !.kind = kind],
                              !.pc = IF kind = "raise" THEN "done" ELSE "follow"]
    /\ UNCHANGED <<cvars, dvars, args, ret, root>>

InitLoop == NoClient /\ NoSupervisor /\ NoHelper

NextLoop ==
    \/ LoopBegin
    \/ LoopFollow
    \/ LoopFollowResult
    \/ LoopPrompt
    \/ LoopInputResult

SpecLoop == InitLoop /\ [][NextLoop]_vars

\* The loop sends a request in this step.
Sends == loop # NoCall /\ loop' # NoCall /\ Len(loop'.sent) > Len(loop.sent)

\* The follow result says the instance waits for the user's input.
WaitsForUser(result) ==
    result.kind = "dict" /\ result.state = "waiting" /\ result.wait_type = "user-input"

\* C40: workflow_input is sent only as the next request after a
\* workflow_follow whose result says the instance waits for user input, with
\* the request_id of the prompt shown and a response that is not empty; and
\* nothing is sent after a follow result that is no object or whose state
\* is completed or failed.
C40_InputAfterPrompt ==
    [][ Sends
        => LET request == loop'.sent[Len(loop'.sent)]
           IN  /\ loop'.sent = Append(loop.sent, request)
               /\ request.command \in {"workflow_follow", "workflow_input"}
               /\ ~(loop.got.kind \in {"other", "raise"})
               /\ ~(loop.got.kind = "dict" /\ loop.got.state \in {"completed", "failed"})
               /\ request.command = "workflow_input"
                  => /\ loop.sent # <<>>
                     /\ loop.sent[Len(loop.sent)].command = "workflow_follow"
                     /\ WaitsForUser(loop.got)
                     /\ request.request_id =
                          (IF loop.got.prompts # <<>> THEN loop.got.prompts[1]
                           ELSE loop.got.wait_id)
                     /\ ~request.request_id.none
                     /\ request.request_id.value # <<>>
                     /\ ~request.response.none
                     /\ request.response.value # <<>>
                     /\ request.response.value[1] \notin Whitespace ]_vars

C40_Witness ==
    /\ loop # NoCall
    /\ loop.fn = "_workflow_interactive_loop"
    /\ loop.pc = "done"
    /\ Len(loop.sent) = 3
    /\ loop.sent[2] = Envelope("workflow_input", Some(<<"p2">>), Some(<<"ok">>))
    /\ loop.sent[3].command = "workflow_follow"
    /\ loop.got.kind = "dict"
    /\ loop.got.state = "completed"

====
